---- MODULE Spec2Model ----
(***************************************************************************)
(* A model of nixpkgsupd: the match engine (src/main.rs), the lock         *)
(* document accessors (src/lockfile.rs), gcroot discovery (src/main.rs),   *)
(* the diff windower (src/flake_nix.rs), the SIGINT guard                  *)
(* (src/sigint_guard.rs), the per-flake update loop (src/update.rs), the   *)
(* decoding of a lock document (src/lockfile.rs,                           *)
(* src/serde_int_tag_hack.rs) and main's target resolution (src/main.rs).  *)
(*                                                                         *)
(* Each component has its own specification over its own variables; the    *)
(* variables of the other components keep their idle values.               *)
(***************************************************************************)
EXTENDS Integers, Sequences, FiniteSets, TLC

VARIABLES
    \* ---- match engine (SpecMatch) ----
    cand,          \* the LockfileNode decoded from a flake's flake.lock
    target,        \* the MatchTarget
    refMatchAge,   \* cli.ref_match_age, in seconds
    matchOut,      \* what the match engine produced, or NotRun
    \* ---- gcroot discovery (SpecDiscover) ----
    fs,            \* the paths that exist on disk
    flakes,        \* the IdHashMap<Flake>, as the set of its items
    scanned,       \* the entries of the gcroots directory read so far
    reported,      \* the entries whose filter_gcroot error main printed
    \* ---- diff windower (SpecDiff) ----
    diffInput,     \* the diff::Result lines handed to reduce_diff_context
    diffContext,   \* cli.diff_context
    overflowChecks,\* whether the build panics on integer overflow (else it wraps)
    diffOut,       \* what reduce_diff_context gave, or NotRun
    \* ---- child processes under the SIGINT guard (SpecSigint) ----
    sigint,        \* the process's disposition of SIGINT
    sigint0,       \* the disposition in force before the first call
    guard,         \* the live SigintGuard's old_action, or None
    child,         \* "none", "running" or "exited"
    callPc,        \* where the calling function stands
    callFn,        \* "run_cmd" or "get_flake_ref_metadata"
    callLog,       \* the results of the calls made so far
    \* ---- main's loop over the flakes and update_flake (Spec) ----
    runPc,         \* "idle", "start", "extract_input", "print_target", "discover",
                   \* "process", "filter", "display", "await", "direnv_prompt",
                   \* "commit_prompt", "done", "exited" or "panicked"
    allowWrite,    \* update_args.allow_write
    cliCommand,    \* "List" or "Update"
    pendingFlakes, \* the flakes the iterator has not yielded yet
    current,       \* the flake update_flake is running for, or None
    processed,     \* the directories process_flake was called for, in order
    failed,        \* the directories whose error main printed
    listed,        \* the directories print_flake_info reported under `list`
    exitCode,      \* None while running, then the process's exit code
    invoked,       \* the external commands run by the current prompt command, in order
    written,       \* the directories whose flake.nix ApplyDiff wrote
    pendingCommit, \* in refresh_direnv on the way to git_commit_changes
    lockMatches,   \* lock_matches_target of the last display
    lastStep,      \* the last step of the update loop
    lockfileNode,  \* process_flake's lockfile_node until the filter has looked at it
    flakeNix,      \* the text of the current flake's flake.nix, or None outside the loop
    newFlakeNix,   \* new_flake_nix of the loop's current iteration, or None
    \* ---- decoding a lock document (SpecLock) ----
    lockDoc,       \* the JSON document read from the file, or None if unreadable
    lockInputId,   \* cli.input_id
    lockOut,       \* what load_lockfile_input gave, or NotRun
    \* ---- main up to the loop over the flakes (SpecResolve) ----
    cliTarget,     \* cli.target, a sequence of characters
    metadata,      \* the NixFlakeMetadata main holds, or None
    resolveCalls   \* the calls target resolution made, with their outcomes

matchVars == <<cand, target, refMatchAge, matchOut>>
discoverVars == <<fs, flakes, scanned, reported>>
diffVars == <<diffInput, diffContext, overflowChecks, diffOut>>
sigintVars == <<sigint, sigint0, guard, child, callPc, callFn, callLog>>
runVars == <<runPc, allowWrite, cliCommand, pendingFlakes, current, processed, failed,
             listed, exitCode, invoked, written, pendingCommit, lockMatches, lastStep,
             lockfileNode, flakeNix, newFlakeNix>>

lockVars == <<lockDoc, lockInputId, lockOut>>
resolveVars == <<cliTarget, metadata, resolveCalls>>

vars == <<matchVars, discoverVars, diffVars, sigintVars, runVars, lockVars, resolveVars>>

\* ---------------------------------------------------------------------
\* Option<T>: None is the empty tuple, Some(x) the one-element tuple.
\* ---------------------------------------------------------------------
None == <<>>
Some(x) == <<x>>
IsSome(o) == o # None
\* Option::is_some_and
IsSomeAnd(o, P(_)) == IsSome(o) /\ P(o[1])

\* ---------------------------------------------------------------------
\* Time.  Seconds since the epoch.  SystemTime holds 0..SystemTimeMaxSecs
\* (the scaled-down range of the platform's time representation); a u64
\* lastModified above it makes checked_add return None.
\* ---------------------------------------------------------------------
NowSecs == 2
FutureSpan == 1
SystemTimeMaxSecs == NowSecs + FutureSpan
LastModifiedMax == SystemTimeMaxSecs + 1
MaxRefMatchAge == 2

\* ---------------------------------------------------------------------
\* lockfile.rs: Locked, Original and their accessors
\* ---------------------------------------------------------------------
Revs == {"a", "b"}
Urls == {"u", "v"}
Refs == {"r", "s"}
OptOf(S) == {None} \cup {Some(x) : x \in S}

\* enum Locked.  Fields a variant does not have are None; fields a variant
\* requires (String, u64) are Some.
LockedOf(revs, urls, lms) ==
    [type : {"path"}, rev : OptOf(revs), url : {None}, lastModified : {Some(t) : t \in lms}]
    \cup [type : {"tarball"}, rev : OptOf(revs), url : {Some(u) : u \in urls},
          lastModified : OptOf(lms)]
    \cup [type : {"git"}, rev : {Some(r) : r \in revs}, url : {Some(u) : u \in urls},
          lastModified : OptOf(lms)]
    \cup [type : {"github"}, rev : {Some(r) : r \in revs}, url : {None},
          lastModified : OptOf(lms)]
    \cup [type : {"other"}, rev : OptOf(revs), url : OptOf(urls), lastModified : OptOf(lms)]

\* Locked::rev
rev(locked) ==
    CASE locked.type \in {"path", "tarball", "other"} -> locked.rev
      [] locked.type \in {"github", "git"} -> Some(locked.rev[1])

\* Locked::url_no_git
url_no_git(locked) ==
    CASE locked.type = "tarball" -> Some(locked.url[1])
      [] locked.type \in {"path", "git", "github", "other"} -> None

\* Locked::last_modified
last_modified(locked) ==
    CASE locked.type = "path" -> Some(locked.lastModified[1])
      [] locked.type \in {"tarball", "git", "github", "other"} -> locked.lastModified

\* enum Original.  Only indirect, git and the git services carry a ref.
OriginalOf(refs) ==
    [type : {"indirect", "git", "github"}, ref : OptOf(refs)]
    \cup [type : {"path", "tarball", "file", "mercurial", "other"}, ref : {None}]

\* Original::ref_
ref_(orig) ==
    CASE orig.type \in {"indirect", "github", "git"} -> orig.ref
      [] orig.type \in {"path", "tarball", "file", "mercurial", "other"} -> None

\* struct LockfileNode { locked, original: OriginalExtra { inner, .. } }
LockfileNodeOf(lockeds, originals) == [locked : lockeds, original : originals]

\* ---------------------------------------------------------------------
\* main.rs: MatchTarget
\* ---------------------------------------------------------------------
\* FlakeMetadata(NixFlakeMetadata { locked, resolved, .. }) or
\* FlakeInput { input: LockfileNode, .. }
MatchTargetOf(lockeds, originals) ==
    [variant : {"FlakeMetadata"}, locked : lockeds, resolved : originals]
    \cup [variant : {"FlakeInput"}, input : LockfileNodeOf(lockeds, originals)]

\* MatchTarget::locked
locked(t) ==
    IF t.variant = "FlakeMetadata" THEN t.locked ELSE t.input.locked

\* MatchTarget::original
original(t) ==
    IF t.variant = "FlakeMetadata" THEN t.resolved ELSE t.input.original

\* matches_ref without the presence test: an absent ref equals an absent ref
matches_ref_absent_equal(t, node) ==
    ref_(node.original) = ref_(original(t))

\* MatchTarget::matches_ref
matches_ref(t, node) ==
    LET P(r) == Some(r) = ref_(original(t))
    IN  IsSomeAnd(ref_(node.original), P)

\* MatchTarget::matches_rev
matches_rev(t, node) ==
    LET P(r) == Some(r) = rev(locked(t))
    IN  IsSomeAnd(rev(node.locked), P)

\* MatchTarget::matches_url
matches_url(t, node) ==
    LET P(u) == Some(u) = url_no_git(locked(t))
    IN  IsSomeAnd(url_no_git(node.locked), P)

\* timestamp_matches: UNIX_EPOCH.checked_add(last_modified) fails on
\* overflow (the ? returns Err); SystemTime::elapsed is Err for a time later
\* than now and the unwrap panics; otherwise elapsed < cli.ref_match_age.
timestamp_matches(age, lm) ==
    IF lm > SystemTimeMaxSecs THEN [kind |-> "err", fresh |-> FALSE]
    ELSE IF lm > NowSecs THEN [kind |-> "panic", fresh |-> FALSE]
    ELSE [kind |-> "ok", fresh |-> (NowSecs - lm) < age]

\* a filter that skips on a fresh ref only
process_flake_filter_ref_only(t, age, node) ==
    LET lm == last_modified(node.locked)
        ts == IF matches_ref(t, node) /\ IsSome(lm)
              THEN timestamp_matches(age, lm[1])
              ELSE [kind |-> "ok", fresh |-> FALSE]
    IN  IF ts.kind # "ok" THEN ts.kind
        ELSE IF ts.fresh THEN "skip" ELSE "proceed"

\* process_flake, the filter (after load_lockfile_input succeeded):
\*   (matches_ref && last_modified().map(timestamp_matches).transpose()?
\*        .is_some_and(|x| x.1)) || matches_rev || matches_url
\* && and || short-circuit, so the timestamp is only looked at when the ref
\* matches.  "skip" is the early return Ok(()), "proceed" goes on to the
\* command, "err" is the ? and "panic" the unwrap.
process_flake_filter(t, age, node) ==
    LET lm == last_modified(node.locked)
        ts == IF matches_ref(t, node) /\ IsSome(lm)
              THEN timestamp_matches(age, lm[1])
              ELSE [kind |-> "ok", fresh |-> FALSE]
    IN  IF ts.kind # "ok" THEN ts.kind
        ELSE IF ts.fresh \/ matches_rev(t, node) \/ matches_url(t, node)
             THEN "skip"
             ELSE "proceed"

\* print_flake_info: the three axis flags, the coloured fields it prints
\* (ref, rev and url share the `printed` slot), then the timestamp, which is
\* looked at whenever last_modified is present.
print_flake_info(t, age, node) ==
    LET ref_matches_target == matches_ref(t, node)
        rev_matches_target == matches_rev(t, node)
        url_matches_target == matches_url(t, node)
        hasRef == IsSome(ref_(node.original))
        hasRev == IsSome(rev(node.locked))
        hasUrl == IsSome(url_no_git(node.locked))
        refOut == IF hasRef
                  THEN <<[field |-> "ref",
                          colour |-> IF ref_matches_target THEN "green" ELSE "red"]>>
                  ELSE <<>>
        printed1 == hasRef
        revOut == IF hasRev
                  THEN IF rev_matches_target
                       THEN IF ~printed1 THEN <<[field |-> "rev", colour |-> "green"]>>
                            ELSE <<>>
                       ELSE <<[field |-> "rev", colour |-> "red"]>>
                  ELSE <<>>
        printed2 == printed1 \/ hasRev
        urlOut == IF hasUrl
                  THEN IF url_matches_target
                       THEN IF ~printed2 THEN <<[field |-> "url", colour |-> "green"]>>
                            ELSE <<>>
                       ELSE <<[field |-> "url", colour |-> "red"]>>
                  ELSE <<>>
        lm == last_modified(node.locked)
        ts == IF IsSome(lm) THEN timestamp_matches(age, lm[1])
              ELSE [kind |-> "ok", fresh |-> FALSE]
    IN  [kind |-> ts.kind,
         refOk |-> ref_matches_target,
         revOk |-> rev_matches_target,
         urlOk |-> url_matches_target,
         printed |-> refOut \o revOut \o urlOut,
         matches |-> ts.kind = "ok"
                     /\ ((ref_matches_target /\ ts.fresh)
                         \/ rev_matches_target \/ url_matches_target)]

\* ---------------------------------------------------------------------
\* SpecMatch: the match engine applied to one candidate and one target
\* ---------------------------------------------------------------------
NotRun == [op |-> "none"]

\* What a flake.lock can hold for the input.
Candidates ==
    LockfileNodeOf(LockedOf({"a"}, {"u"}, 0..LastModifiedMax), OriginalOf({"r"}))

TargetLockeds ==
    { [type |-> "tarball", rev |-> Some("a"), url |-> Some("u"), lastModified |-> None],
      [type |-> "tarball", rev |-> None, url |-> Some("v"), lastModified |-> None],
      [type |-> "github", rev |-> Some("b"), url |-> None, lastModified |-> Some(0)],
      [type |-> "other", rev |-> None, url |-> Some("u"), lastModified |-> None] }

TargetOriginals ==
    { [type |-> "github", ref |-> Some("r")],
      [type |-> "indirect", ref |-> None],
      [type |-> "git", ref |-> Some("s")] }

Targets == MatchTargetOf(TargetLockeds, TargetOriginals)

IdleMatch ==
    /\ cand = [locked |-> [type |-> "other", rev |-> None, url |-> None,
                            lastModified |-> None],
               original |-> [type |-> "other", ref |-> None]]
    /\ target = [variant |-> "FlakeMetadata",
                 locked |-> [type |-> "other", rev |-> None, url |-> None,
                             lastModified |-> None],
                 resolved |-> [type |-> "other", ref |-> None]]
    /\ refMatchAge = 0
    /\ matchOut = NotRun

IdleDiscover ==
    /\ fs = {}
    /\ flakes = {}
    /\ scanned = <<>>
    /\ reported = {}

IdleDiff ==
    /\ diffInput = <<>>
    /\ diffContext = 0
    /\ overflowChecks = FALSE
    /\ diffOut = NotRun

IdleSigint ==
    /\ sigint = "SIG_DFL"
    /\ sigint0 = "SIG_DFL"
    /\ guard = None
    /\ child = "none"
    /\ callPc = "idle"
    /\ callFn = "none"
    /\ callLog = <<>>

IdleLock ==
    /\ lockDoc = None
    /\ lockInputId = ""
    /\ lockOut = NotRun

IdleResolve ==
    /\ cliTarget = <<>>
    /\ metadata = None
    /\ resolveCalls = <<>>

IdleRun ==
    /\ runPc = "idle"
    /\ allowWrite = FALSE
    /\ cliCommand = "List"
    /\ pendingFlakes = {}
    /\ current = None
    /\ processed = <<>>
    /\ failed = {}
    /\ listed = {}
    /\ exitCode = None
    /\ invoked = <<>>
    /\ written = {}
    /\ pendingCommit = FALSE
    /\ lockMatches = FALSE
    /\ lastStep = NotRun
    /\ lockfileNode = None
    /\ flakeNix = None
    /\ newFlakeNix = None

InitMatch ==
    /\ cand \in Candidates
    \* any target, or the target made of the candidate node itself
    /\ target \in Targets \cup {[variant |-> "FlakeInput", input |-> cand]}
    /\ refMatchAge \in 0..MaxRefMatchAge
    /\ matchOut = NotRun
    /\ IdleDiscover
    /\ IdleDiff
    /\ IdleSigint
    /\ IdleRun
    /\ IdleLock
    /\ IdleResolve

\* process_flake up to the filter's decision
ProcessFlakeFilter ==
    /\ matchOut = NotRun
    /\ matchOut' = [op |-> "process_flake",
                    outcome |-> process_flake_filter(target, refMatchAge, cand)]
    /\ UNCHANGED <<cand, target, refMatchAge, discoverVars, diffVars, sigintVars, runVars, lockVars, resolveVars>>

\* print_flake_info on the decoded node
PrintFlakeInfo ==
    /\ matchOut = NotRun
    /\ matchOut' = [op |-> "print_flake_info",
                    out |-> print_flake_info(target, refMatchAge, cand)]
    /\ UNCHANGED <<cand, target, refMatchAge, discoverVars, diffVars, sigintVars, runVars, lockVars, resolveVars>>

\* timestamp_matches on a present last_modified
TimestampMatches ==
    /\ matchOut = NotRun
    /\ IsSome(last_modified(cand.locked))
    /\ matchOut' = [op |-> "timestamp_matches",
                    ts |-> timestamp_matches(refMatchAge, last_modified(cand.locked)[1])]
    /\ UNCHANGED <<cand, target, refMatchAge, discoverVars, diffVars, sigintVars, runVars, lockVars, resolveVars>>

NextMatch == ProcessFlakeFilter \/ PrintFlakeInfo \/ TimestampMatches

SpecMatch == InitMatch /\ [][NextMatch]_vars

\* ---------------------------------------------------------------------
\* Paths.  A file name is a sequence of tokens ("result-1" is
\* <<"result", "-", "1">>), a path the sequence of its components below the
\* root.
\* ---------------------------------------------------------------------
DirenvName == <<".direnv">>
ResultName == <<"result">>
ResultPrefix == <<"result", "-">>
FlakeLockName == <<"flake.lock">>

\* [u8]::starts_with
starts_with(name, prefix) ==
    /\ Len(name) >= Len(prefix)
    /\ SubSeq(name, 1, Len(prefix)) = prefix

\* Path::file_name
file_name(path) == IF path = <<>> THEN None ELSE Some(path[Len(path)])

\* Path::parent
parent(path) == IF path = <<>> THEN None ELSE Some(SubSeq(path, 1, Len(path) - 1))

\* Path::ancestors: the path itself, then its parents up to the root
ancestors(path) == [i \in 1..(Len(path) + 1) |-> SubSeq(path, 1, Len(path) + 1 - i)]

\* Path::join
join(path, name) == Append(path, name)

\* Iterator::find
Find(seq, P(_)) ==
    IF \E i \in 1..Len(seq) : P(seq[i])
    THEN Some(seq[CHOOSE i \in 1..Len(seq) :
                     P(seq[i]) /\ \A j \in 1..(i - 1) : ~P(seq[j])])
    ELSE None

\* ---------------------------------------------------------------------
\* main.rs: Flake, its key, and filter_gcroot
\* ---------------------------------------------------------------------
FlakeId == "nixpkgs"

\* impl IdHashItem for Flake: the key is the directory
key(flake) == flake.directory

\* filter_gcroot, the classification of an existing gcroot: the owning
\* directory and the two flags, or None when the gcroot has neither shape
classify_gcroot(gcroot) ==
    LET IsDirenv(path) == LET P(name) == name = DirenvName
                          IN  IsSomeAnd(file_name(path), P)
        direnv_path == Find(ancestors(gcroot), IsDirenv)
        direnv_dir == IF IsSome(direnv_path) THEN parent(direnv_path[1]) ELSE None
        IsResult(name) == name = ResultName \/ starts_with(name, ResultPrefix)
        result_dir == IF IsSomeAnd(file_name(gcroot), IsResult)
                      THEN parent(gcroot)
                      ELSE None
    IN  IF IsSome(direnv_dir)
        THEN Some([directory |-> direnv_dir[1], is_direnv |-> TRUE,
                   is_build_result |-> FALSE])
        ELSE IF IsSome(result_dir)
        THEN Some([directory |-> result_dir[1], is_direnv |-> FALSE,
                   is_build_result |-> TRUE])
        ELSE None

\* flakes.entry(directory): the occupied item, or None when vacant
entry_of(map, directory) ==
    IF \E f \in map : key(f) = directory
    THEN Some(CHOOSE f \in map : key(f) = directory)
    ELSE None

\* the Occupied arm assigning the flags instead of OR-ing them in
occupied_update_assign(existing, gcroot, is_direnv, is_build_result) ==
    [existing EXCEPT !.gcroots = Append(@, gcroot),
                     !.has_direnv_gc_roots = is_direnv,
                     !.has_build_result = is_build_result]

\* the Occupied arm starting the gcroots over with the new one
occupied_update_restart(existing, gcroot, is_direnv, is_build_result) ==
    [existing EXCEPT !.gcroots = <<gcroot>>,
                     !.has_direnv_gc_roots = @ \/ is_direnv,
                     !.has_build_result = @ \/ is_build_result]

\* filter_gcroot, the Occupied arm: push the gcroot and OR the flags in
occupied_update(existing, gcroot, is_direnv, is_build_result) ==
    [existing EXCEPT !.gcroots = Append(@, gcroot),
                     !.has_direnv_gc_roots = @ \/ is_direnv,
                     !.has_build_result = @ \/ is_build_result]

\* a stale gcroot taken for an existing one
gcroot_exists_always(gcroot, disk) == TRUE

\* filter_gcroot: gcroot.exists()
gcroot_exists(gcroot, disk) == gcroot \in disk

\* a directory without flake.lock taken for a flake
lockfile_exists_always(lockfile_path, disk) == TRUE

\* filter_gcroot, the Vacant arm: lockfile_path.exists()
lockfile_exists(lockfile_path, disk) == lockfile_path \in disk

\* filter_gcroot(entry, flakes, flake_id) on the disk `disk`.  `link` is
\* what read_link gives for the entry: Some(target), or None when it fails.
\* Gives the map afterwards and whether the call returned Err.
filter_gcroot(link, map, flake_id, disk) ==
    IF ~IsSome(link) THEN [flakes |-> map, err |-> TRUE]
    ELSE LET gcroot == link[1]
             cls == classify_gcroot(gcroot)
         IN  IF ~gcroot_exists(gcroot, disk) THEN [flakes |-> map, err |-> FALSE]
             ELSE IF ~IsSome(cls) THEN [flakes |-> map, err |-> FALSE]
             ELSE LET directory == cls[1].directory
                      occupied == entry_of(map, directory)
                      lockfile_path == join(directory, FlakeLockName)
                  IN  IF IsSome(occupied)
                      THEN LET existing == occupied[1]
                               updated == occupied_update(existing, gcroot, cls[1].is_direnv,
                                                          cls[1].is_build_result)
                           IN  [flakes |-> (map \ {existing}) \cup {updated},
                                err |-> FALSE]
                      ELSE IF ~lockfile_exists(lockfile_path, disk)
                      THEN [flakes |-> map, err |-> FALSE]
                      ELSE [flakes |-> map \cup
                                {[id |-> flake_id,
                                  directory |-> directory,
                                  gcroots |-> <<gcroot>>,
                                  has_direnv_gc_roots |-> cls[1].is_direnv,
                                  has_build_result |-> cls[1].is_build_result,
                                  lockfile_path |-> lockfile_path]},
                            err |-> FALSE]

\* ---------------------------------------------------------------------
\* SpecDiscover: main's loop over /nix/var/nix/gcroots/auto
\* ---------------------------------------------------------------------
MaxEntries == 3

DirAB == <<<<"a">>, <<"b">>>>
DirAC == <<<<"a">>, <<"c">>>>

\* The targets the symlinks of the gcroots directory point at.
GcrootTargets ==
    { DirAB \o <<DirenvName, <<"x">>>>,
      DirAB \o <<ResultName>>,
      DirAC \o <<<<"result", "-", "1">>>>,
      DirAC \o <<DirenvName, ResultName>>,
      DirAB \o <<<<"result", "s">>>> }

LockfilePaths == { join(DirAB, FlakeLockName), join(DirAC, FlakeLockName) }

Links == {None} \cup {Some(p) : p \in GcrootTargets}

InitDiscover ==
    /\ fs \in SUBSET (GcrootTargets \cup LockfilePaths)
    /\ flakes = {}
    /\ scanned = <<>>
    /\ reported = {}
    /\ IdleMatch
    /\ IdleDiff
    /\ IdleSigint
    /\ IdleRun
    /\ IdleLock
    /\ IdleResolve

\* One iteration of main's loop over the directory: filter_gcroot on the
\* next entry, its error printed and the loop going on.
FilterGcroot ==
    /\ Len(scanned) < MaxEntries
    /\ \E link \in Links :
          LET r == filter_gcroot(link, flakes, FlakeId, fs)
          IN  /\ flakes' = r.flakes
              /\ scanned' = Append(scanned, link)
              /\ reported' = IF r.err THEN reported \cup {Len(scanned) + 1}
                             ELSE reported
    /\ UNCHANGED <<fs, matchVars, diffVars, sigintVars, runVars, lockVars, resolveVars>>

NextDiscover == FilterGcroot

SpecDiscover == InitDiscover /\ [][NextDiscover]_vars

\* ---------------------------------------------------------------------
\* flake_nix.rs: reduce_diff_context
\* ---------------------------------------------------------------------
\* usize, scaled down: 0..UsizeMax
UsizeMax == 7

IsChange(line) == line.kind \in {"Left", "Right"}

\* Vec<&diff::Result<T>>::contains(&diff): == on references compares the
\* values referred to.  `result` holds positions of `input`.
result_contains(input, result, pos) ==
    \E k \in 1..Len(result) : input[result[k]] = input[pos]

\* the inner loop: for diff in input.iter().take(end).skip(start), 0-based
\* positions pos..end-1
RECURSIVE push_window(_, _, _, _)
push_window(input, result, pos, end) ==
    IF pos >= end \/ pos >= Len(input) THEN result
    ELSE push_window(input,
                     IF result_contains(input, result, pos + 1) THEN result
                     ELSE Append(result, pos + 1),
                     pos + 1, end)

\* the outer loop over diff_indices (0-based), from the k-th on
RECURSIVE reduce_from(_, _, _, _, _, _)
reduce_from(input, context, checks, diff_indices, k, result) ==
    IF k > Len(diff_indices) THEN [kind |-> "ok", result |-> result]
    ELSE LET diff_idx == diff_indices[k]
             len == Len(input)
             \* diff_idx.saturating_sub(context)
             start == IF diff_idx >= context THEN diff_idx - context ELSE 0
             sum == diff_idx + context + 1
             overflow == sum > UsizeMax
             wrapped == sum % (UsizeMax + 1)
             \* (diff_idx + context + 1).min(len)
             end == IF wrapped < len THEN wrapped ELSE len
         IN  IF overflow /\ checks THEN [kind |-> "panic", result |-> <<>>]
             ELSE reduce_from(input, context, checks, diff_indices, k + 1,
                              push_window(input, result, start, end))

\* reduce_diff_context(input, context): the positions of `input` the
\* returned references point at, in the order returned
reduce_diff_context(input, context, checks) ==
    LET Changed(i) == IsChange(input[i + 1])
        diff_indices == SelectSeq([i \in 1..Len(input) |-> i - 1], Changed)
    IN  reduce_from(input, context, checks, diff_indices, 1, <<>>)

\* ---------------------------------------------------------------------
\* SpecDiff: reduce_diff_context applied to one diff
\* ---------------------------------------------------------------------
MaxDiffLen == 4

DiffLines == [kind : {"Left", "Right", "Both"}, text : {"p", "q"}]

SeqsUpTo(S, n) == UNION {[1..m -> S] : m \in 0..n}

InitDiff ==
    /\ diffInput \in SeqsUpTo(DiffLines, MaxDiffLen)
    /\ diffContext \in 0..UsizeMax
    /\ overflowChecks \in BOOLEAN
    /\ diffOut = NotRun
    /\ IdleMatch
    /\ IdleDiscover
    /\ IdleSigint
    /\ IdleRun
    /\ IdleLock
    /\ IdleResolve

\* the call in set_flake_input_url
ReduceDiffContext ==
    /\ diffOut = NotRun
    /\ diffOut' = [op |-> "reduce_diff_context"] @@
                  reduce_diff_context(diffInput, diffContext, overflowChecks)
    /\ UNCHANGED <<diffInput, diffContext, overflowChecks, matchVars, discoverVars,
                   sigintVars, runVars, lockVars, resolveVars>>

NextDiff == ReduceDiffContext

SpecDiff == InitDiff /\ [][NextDiff]_vars

\* ---------------------------------------------------------------------
\* sigint_guard.rs, and the two functions that run a child under the guard
\* ---------------------------------------------------------------------
EmptyHandler == "empty_handler"

\* SigintGuard::new: sigaction installs empty_handler and returns the action
\* that was in force, which the guard keeps
sigint_guard_new(disposition) ==
    [installed |-> EmptyHandler, old_action |-> disposition]

\* the drop putting the default action back instead of the saved one
sigint_guard_drop_default(old_action) == "SIG_DFL"

\* Drop for SigintGuard: sigaction(SIGINT, &self.old_action)
sigint_guard_drop(old_action) == old_action

\* ---------------------------------------------------------------------
\* SpecSigint: calls of run_cmd and get_flake_ref_metadata, step by step
\* ---------------------------------------------------------------------
MaxCalls == 3

Dispositions == {"SIG_DFL", "SIG_IGN"}

InitSigint ==
    /\ sigint0 \in Dispositions
    /\ sigint = sigint0
    /\ guard = None
    /\ child = "none"
    /\ callPc = "idle"
    /\ callFn = "none"
    /\ callLog = <<>>
    /\ IdleMatch
    /\ IdleDiscover
    /\ IdleDiff
    /\ IdleRun
    /\ IdleLock
    /\ IdleResolve

sigintOthers == <<matchVars, discoverVars, diffVars, runVars, lockVars, resolveVars>>

\* let _guard = SigintGuard::new(), the first statement of both functions
GuardNew ==
    /\ callPc = "idle"
    /\ Len(callLog) < MaxCalls
    /\ \E fn \in {"run_cmd", "get_flake_ref_metadata"} : callFn' = fn
    /\ LET g == sigint_guard_new(sigint)
       IN  /\ sigint' = g.installed
           /\ guard' = Some(g.old_action)
    /\ callPc' = "guarded"
    /\ UNCHANGED <<sigint0, child, callLog, sigintOthers>>

\* Command::status() / Command::output() starting the child
SpawnOk ==
    /\ callPc = "guarded"
    /\ child' = "running"
    /\ callPc' = "waiting"
    /\ UNCHANGED <<sigint, sigint0, guard, callFn, callLog, sigintOthers>>

\* the child cannot be started: status()? / output()? return Err
SpawnFails ==
    /\ callPc = "guarded"
    /\ callPc' = "returning_err"
    /\ UNCHANGED <<sigint, sigint0, guard, child, callFn, callLog, sigintOthers>>

\* the child exits and the wait returns its status
ChildExits ==
    /\ callPc = "waiting"
    /\ child = "running"
    /\ child' = "exited"
    /\ \E success \in BOOLEAN :
          callPc' = IF success THEN "returning_true" ELSE "returning_false"
    /\ UNCHANGED <<sigint, sigint0, guard, callFn, callLog, sigintOthers>>

\* the guard goes out of scope (the end of run_cmd, the end of the block in
\* get_flake_ref_metadata, or the ? leaving either) and the function returns
GuardDrop ==
    /\ callPc \in {"returning_err", "returning_true", "returning_false"}
    /\ IsSome(guard)
    /\ sigint' = sigint_guard_drop(guard[1])
    /\ guard' = None
    /\ child' = "none"
    /\ callLog' = Append(callLog, [fn |-> callFn, result |-> callPc])
    /\ callPc' = "idle"
    /\ UNCHANGED <<sigint0, callFn, sigintOthers>>

\* SIGINT is delivered to the process: the default action terminates it,
\* the empty handler and SIG_IGN leave it running
Interrupt ==
    /\ callPc # "killed"
    /\ callPc' = IF sigint = "SIG_DFL" THEN "killed" ELSE callPc
    /\ UNCHANGED <<sigint, sigint0, guard, child, callFn, callLog, sigintOthers>>

NextSigint == GuardNew \/ SpawnOk \/ SpawnFails \/ ChildExits \/ GuardDrop \/ Interrupt

SpecSigint == InitSigint /\ [][NextSigint]_vars

\* ---------------------------------------------------------------------
\* update.rs: the prompt, its commands and the pieces of execute_prompt_cmd
\* ---------------------------------------------------------------------
\* A line read from the terminal is a sequence of tokens; " " and "\n" are
\* white space.
Whitespace == {" ", "\n"}

\* str::trim
RECURSIVE trim_start(_)
trim_start(line) ==
    IF line # <<>> /\ Head(line) \in Whitespace THEN trim_start(Tail(line)) ELSE line
RECURSIVE trim_end(_)
trim_end(line) ==
    IF line # <<>> /\ line[Len(line)] \in Whitespace
    THEN trim_end(SubSeq(line, 1, Len(line) - 1))
    ELSE line
trim(line) == trim_end(trim_start(line))

\* #[strum(serialize = ...)] of PromptCommand
PromptCommands ==
    { [token |-> "a", cmd |-> "ApplyDiff"],
      [token |-> "n", cmd |-> "NextFlake"],
      [token |-> "e", cmd |-> "LaunchEditor"],
      [token |-> "sh", cmd |-> "LaunchShell"],
      [token |-> "up", cmd |-> "RunNixFlakeUpdate"],
      [token |-> "dg", cmd |-> "DeleteGcroots"],
      [token |-> "lock", cmd |-> "Lock"],
      [token |-> "direnv", cmd |-> "RefreshDirenv"],
      [token |-> "commit", cmd |-> "Commit"],
      [token |-> "?", cmd |-> "PrintHelp"] }

\* PromptCommand::from_str: the command whose token is the whole string
from_str(str) ==
    IF \E c \in PromptCommands : str = <<c.token>>
    THEN Some((CHOOSE c \in PromptCommands : str = <<c.token>>).cmd)
    ELSE None

\* update_flake: cmd_string.trim(), from_str, and PrintHelp for anything
\* that is no command
parse_command(line) ==
    LET parsed == from_str(trim(line))
    IN  IF IsSome(parsed) THEN parsed[1] ELSE "PrintHelp"

\* the dry-run gate leaving DeleteGcroots out
check_dry_run_here_no_delete(cmd) ==
    cmd \in {"ApplyDiff", "RunNixFlakeUpdate", "Lock"}

\* execute_prompt_cmd: check_dry_run_here
check_dry_run_here(cmd) ==
    cmd \in {"ApplyDiff", "RunNixFlakeUpdate", "DeleteGcroots", "Lock"}

\* the loop going on whatever the flow
loop_exits_never(flow) == FALSE

\* update_flake: match flow { Break => break, Continue => {} }
loop_exits(flow) == flow = "Break"

\* a tool's failure taken for success
tool_succeeded_always(res) == TRUE

\* the RunNixFlakeUpdate and Lock arms: if !run_cmd(..)? { .. return }
tool_succeeded(res) == res = "true"

\* the flow each command's arm ends with when nothing failed
arm_flow(cmd) == IF cmd = "NextFlake" THEN "Break" ELSE "Continue"

\* a confirmation that takes any answer beginning with y
confirmed_lenient(line) == trim(line) # <<>> /\ Head(trim(line)) = "y"

\* the confirmation read of both sub-prompts: buf.trim() == "y"
confirmed(line) == trim(line) = <<"y">>

GitName == <<".git">>

\* a test that looks for .git in the flake's own directory only
in_git_repo_own_directory(flake, disk) == join(flake.directory, GitName) \in disk

\* Flake::in_git_repo
in_git_repo(flake, disk) ==
    \E i \in 1..Len(ancestors(flake.directory)) :
        join(ancestors(flake.directory)[i], GitName) \in disk

\* flake.nix as far as the loop tells texts apart: what the operator has
\* made of the rest of the file, and the url of the managed input
FlakeNixOnDisk == [body |-> "original", url |-> "old"]
TargetFlakeRef == "new"

\* what an editor or a shell session can leave in flake.nix
EditedTexts(text) == {text, [text EXCEPT !.body = "edited"]}

\* the text as it was when update_flake was entered
read_to_string_once(text) == FlakeNixOnDisk

\* fs::read_to_string(&flake_nix): the text the file holds now
read_to_string(text) == text

\* replace_flake_input_url(target_flake_ref, &current_flake_nix, flake.id)
replace_flake_input_url(target_flake_ref, current_flake_nix) ==
    [current_flake_nix EXCEPT !.url = target_flake_ref]

\* fs::write(flake_nix, new_flake_nix): the file holds the text written
fs_write(new_flake_nix) == new_flake_nix

\* a removal loop that goes past a failure and reports success
RECURSIVE remove_from_keep_going(_, _, _, _)
remove_from_keep_going(gcroots, k, failAt, disk) ==
    IF k > Len(gcroots) THEN [disk |-> disk, ok |-> TRUE]
    ELSE IF k = failAt \/ gcroots[k] \notin disk
    THEN remove_from_keep_going(gcroots, k + 1, failAt, disk)
    ELSE remove_from_keep_going(gcroots, k + 1, failAt, disk \ {gcroots[k]})

\* the DeleteGcroots arm: remove_file on each gcroot in turn, the ? leaving
\* at the first failure.  failAt is the gcroot whose removal the system
\* refuses (0: none); removing a path that is not there fails too.
RECURSIVE remove_from(_, _, _, _)
remove_from(gcroots, k, failAt, disk) ==
    IF k > Len(gcroots) THEN [disk |-> disk, ok |-> TRUE]
    ELSE IF k = failAt \/ gcroots[k] \notin disk THEN [disk |-> disk, ok |-> FALSE]
    ELSE remove_from(gcroots, k + 1, failAt, disk \ {gcroots[k]})

remove_gcroots(gcroots, failAt, disk) == remove_from(gcroots, 1, failAt, disk)

\* ---------------------------------------------------------------------
\* Spec: main's loop over the discovered flakes, process_flake, and the
\* prompt loop of update_flake
\* ---------------------------------------------------------------------
\* the flakes discovery leaves for a scan of `links` on the disk `disk`
RECURSIVE Discover(_, _, _)
Discover(links, map, disk) ==
    IF links = <<>> THEN map
    ELSE Discover(Tail(links), filter_gcroot(Head(links), map, FlakeId, disk).flakes, disk)

GcrootDirenvAB == DirAB \o <<DirenvName, <<"x">>>>
GcrootResultAB == DirAB \o <<ResultName>>
GcrootResultAC == DirAC \o <<<<"result", "-", "1">>>>

Scans ==
    { <<>>,
      <<Some(GcrootResultAC)>>,
      <<Some(GcrootDirenvAB), Some(GcrootResultAB)>>,
      <<Some(GcrootDirenvAB), Some(GcrootResultAC), Some(GcrootResultAB)>> }

GitDirs == { <<<<"a">>, GitName>>, DirAC \o <<GitName>> }

\* the target and the window of the run, and what the flakes' lock files
\* can hold for the input
RunTarget ==
    [variant |-> "FlakeMetadata",
     locked |-> [type |-> "github", rev |-> Some("b"), url |-> None,
                 lastModified |-> Some(NowSecs)],
     resolved |-> [type |-> "github", ref |-> Some("r")]]
RunRefMatchAge == 1
RunCandidates ==
    LockfileNodeOf({l \in LockedOf(Revs, {"u"}, 0..LastModifiedMax) : l.type = "github"},
                   {o \in OriginalOf({"r"}) : o.type = "github"})

RunResults == {"true", "false", "err"}

CommandLines ==
    {<<c.token, "\n">> : c \in PromptCommands}
    \cup { <<" ", "n", " ", "\n">>, <<"n", "n", "\n">>, <<"bogus", "\n">>, <<"\n">>, <<>> }

AnswerLines ==
    { <<"y", "\n">>, <<" ", "y", "\n">>, <<"n", "\n">>, <<"Y", "\n">>, <<"y", "y", "\n">>,
      <<"\n">>, <<>> }

NoStep ==
    [cmd |-> "none", flow |-> "none", notice |-> FALSE, confirmed |-> FALSE,
     result |-> "none", error |-> FALSE, answer |-> None, staged |-> "none"]

Init ==
    /\ \E git \in SUBSET GitDirs : fs = GcrootTargets \cup LockfilePaths \cup git
    /\ \E links \in Scans : flakes = Discover(links, {}, fs)
    /\ scanned = <<>>
    /\ reported = {}
    /\ runPc = "process"
    /\ allowWrite \in BOOLEAN
    /\ cliCommand \in {"List", "Update"}
    /\ pendingFlakes = flakes
    /\ current = None
    /\ processed = <<>>
    /\ failed = {}
    /\ listed = {}
    /\ exitCode = None
    /\ invoked = <<>>
    /\ written = {}
    /\ pendingCommit = FALSE
    /\ lockMatches = FALSE
    /\ lastStep = NoStep
    /\ lockfileNode = None
    /\ flakeNix = None
    /\ newFlakeNix = None
    /\ IdleMatch
    /\ IdleDiff
    /\ IdleSigint
    /\ IdleLock
    /\ IdleResolve

runOthers ==
    <<flakes, scanned, reported, matchVars, diffVars, sigintVars, lockVars, resolveVars>>

\* main: the process_flake call for the next flake of the iterator, up to
\* load_lockfile_input(..)?; the if let Err in main prints the failure
CallProcessFlake ==
    /\ runPc = "process"
    /\ \E flake \in pendingFlakes :
          /\ pendingFlakes' = pendingFlakes \ {flake}
          /\ processed' = Append(processed, flake.directory)
          /\ \E load \in {None} \cup {Some(n) : n \in RunCandidates} :
                IF ~IsSome(load)
                THEN /\ failed' = failed \cup {flake.directory}
                     /\ UNCHANGED <<runPc, current, lockfileNode>>
                ELSE /\ runPc' = "filter"
                     /\ current' = Some(flake)
                     /\ lockfileNode' = load
                     /\ UNCHANGED failed
    /\ UNCHANGED <<fs, allowWrite, cliCommand, listed, exitCode, invoked, written,
                   pendingCommit, lockMatches, lastStep, flakeNix, newFlakeNix, runOthers>>

\* process_flake from the filter on, with the if let Err in main printing
\* the failure.  A panic unwinds main.
ProcessFlake ==
    /\ runPc = "filter"
    /\ lockfileNode' = None
    /\ \E flake_nix_exists \in BOOLEAN :
          LET flake == current[1]
              node == lockfileNode[1]
              verdict == process_flake_filter(RunTarget, RunRefMatchAge, node)
              info == print_flake_info(RunTarget, RunRefMatchAge, node)
              Return == /\ runPc' = "process"
                        /\ current' = None
                        /\ UNCHANGED <<exitCode, flakeNix>>
              Fail == /\ failed' = failed \cup {flake.directory}
                      /\ Return
                      /\ UNCHANGED listed
              Panic == /\ runPc' = "panicked"
                       /\ exitCode' = Some(101)
                       /\ current' = None
                       /\ UNCHANGED <<failed, listed, flakeNix>>
              Skip == /\ Return
                      /\ UNCHANGED <<failed, listed>>
          IN  CASE verdict = "skip" -> Skip
                [] verdict = "err" -> Fail
                [] verdict = "panic" -> Panic
                [] verdict = "proceed" /\ cliCommand = "List" ->
                      ( CASE info.kind = "ok" ->
                               /\ listed' = listed \cup {flake.directory}
                               /\ Return
                               /\ UNCHANGED failed
                          [] info.kind = "err" -> Fail
                          [] info.kind = "panic" -> Panic )
                [] verdict = "proceed" /\ cliCommand = "Update" ->
                      \* update_flake: bail!("flake.nix does not exist")
                      IF ~flake_nix_exists THEN Fail
                      ELSE /\ runPc' = "display"
                           /\ flakeNix' = Some(FlakeNixOnDisk)
                           /\ UNCHANGED <<current, failed, listed, exitCode>>
    /\ UNCHANGED <<fs, allowWrite, cliCommand, pendingFlakes, processed, invoked,
                   written, pendingCommit, lockMatches, lastStep, newFlakeNix, runOthers>>

\* main: the iterator is exhausted and main returns Ok(())
MainReturns ==
    /\ runPc = "process"
    /\ pendingFlakes = {}
    /\ runPc' = "done"
    /\ exitCode' = Some(0)
    /\ UNCHANGED <<fs, allowWrite, cliCommand, pendingFlakes, current, processed, failed,
                   listed, invoked, written, pendingCommit, lockMatches, lastStep,
                   lockfileNode, flakeNix, newFlakeNix, runOthers>>

\* what a step of the prompt loop may change.  text is what flake.nix holds
\* after the step; new_flake_nix lives for one iteration of the loop.
LoopStep(pc, cur, fail, inv, disk, wr, text, pend, last) ==
    /\ runPc' = pc
    /\ current' = cur
    /\ failed' = fail
    /\ invoked' = inv
    /\ fs' = disk
    /\ written' = wr
    /\ flakeNix' = IF cur = None THEN None ELSE text
    /\ newFlakeNix' = IF pc \in {"display", "process"} THEN None ELSE newFlakeNix
    /\ pendingCommit' = pend
    /\ lastStep' = last
    /\ UNCHANGED <<allowWrite, cliCommand, pendingFlakes, processed, listed, exitCode,
                   lockMatches, lockfileNode, runOthers>>

\* result: what run_cmd returned for the command's own tool; error: the
\* arm printed its failure message; answer: the line a sub-prompt read;
\* staged: what run_cmd returned for git add
Step(cmd, flow, notice, conf) ==
    [cmd |-> cmd, flow |-> flow, notice |-> notice, confirmed |-> conf,
     result |-> "none", error |-> FALSE, answer |-> None, staged |-> "none"]

\* an Err leaves update_flake through the ? and main prints it
LoopErr(inv, disk, wr, text, last) ==
    LoopStep("process", None, failed \cup {current[1].directory}, inv, disk, wr, text, FALSE,
             [last EXCEPT !.flow = "Err"])

\* execute_prompt_cmd returned Ok(flow): the loop breaks or goes round
LoopFlow(inv, disk, wr, text, last) ==
    IF loop_exits(last.flow)
    THEN LoopStep("process", None, failed, inv, disk, wr, text, FALSE, last)
    ELSE LoopStep("display", current, failed, inv, disk, wr, text, FALSE, last)

\* git_commit_changes up to its read_line: git log -0 and git diff --cached
EnterCommit(inv, last) ==
    \E log \in RunResults, diff \in RunResults :
        IF log = "err" THEN LoopErr(inv \o <<"git log">>, fs, written, flakeNix, last)
        ELSE IF diff = "err"
        THEN LoopErr(inv \o <<"git log", "git diff">>, fs, written, flakeNix, last)
        ELSE LoopStep("commit_prompt", current, failed,
                      inv \o <<"git log", "git diff">>, fs, written, flakeNix, FALSE,
                      [last EXCEPT !.flow = "Prompt"])

\* refresh_direnv up to its read_line
EnterDirenv(inv, thenCommit, last) ==
    LoopStep("direnv_prompt", current, failed, inv, fs, written, flakeNix, thenCommit,
             [last EXCEPT !.flow = "Prompt"])

\* the RunNixFlakeUpdate and Lock arms after run_cmd returned true
AfterToolSuccess(inv, last) ==
    IF current[1].has_direnv_gc_roots
    THEN EnterDirenv(inv, in_git_repo(current[1], fs), last)
    ELSE IF in_git_repo(current[1], fs) THEN EnterCommit(inv, last)
    ELSE LoopFlow(inv, fs, written, flakeNix, last)

\* update_flake, the top of the loop: analyze the lock file, print the
\* flake, read flake.nix, compute the new text and print the diff
Display ==
    /\ runPc = "display"
    /\ \E outcome \in {"err", "matches", "differs"} :
          IF outcome = "err"
          THEN /\ LoopErr(invoked, fs, written, flakeNix, Step("Display", "Err", FALSE, FALSE))
          ELSE /\ runPc' = "await"
               /\ lockMatches' = (outcome = "matches")
               /\ newFlakeNix' =
                     Some(replace_flake_input_url(TargetFlakeRef,
                                                  read_to_string(flakeNix[1])))
               /\ UNCHANGED <<fs, allowWrite, cliCommand, pendingFlakes, current,
                              processed, failed, listed, exitCode, invoked, written,
                              pendingCommit, lastStep, lockfileNode, flakeNix, runOthers>>

\* execute_prompt_cmd(update_args, flake, flake_nix, new_flake_nix, cmd), up
\* to its return or to the read_line of a sub-prompt
ExecutePromptCmd(cmd) ==
    LET flake == current[1]
        last == Step(cmd, arm_flow(cmd), FALSE, FALSE)
    IN  IF check_dry_run_here(cmd) /\ ~allowWrite
        THEN LoopFlow(<<>>, fs, written, flakeNix, Step(cmd, "Continue", TRUE, FALSE))
        ELSE CASE cmd = "ApplyDiff" ->
                    \E ok \in BOOLEAN :
                        IF ok THEN LoopFlow(<<>>, fs, written \cup {flake.directory},
                                           Some(fs_write(newFlakeNix[1])), last)
                        ELSE LoopErr(<<>>, fs, written, flakeNix, last)
               [] cmd = "NextFlake" -> LoopFlow(<<>>, fs, written, flakeNix, last)
               [] cmd \in {"LaunchEditor", "LaunchShell"} ->
                    LET tool == IF cmd = "LaunchEditor" THEN "editor" ELSE "shell"
                    IN  \E env_set \in BOOLEAN, status \in RunResults :
                            IF ~env_set THEN LoopErr(<<>>, fs, written, flakeNix, last)
                            ELSE IF status = "err"
                            THEN LoopErr(<<tool>>, fs, written, flakeNix, last)
                            ELSE \E text \in EditedTexts(flakeNix[1]) :
                                    LoopFlow(<<tool>>, fs, written, Some(text), last)
               [] cmd \in {"RunNixFlakeUpdate", "Lock"} ->
                    LET tool == IF cmd = "Lock" THEN "nix flake lock"
                                ELSE "nix flake update"
                    IN  \E res \in RunResults :
                            LET ran == [last EXCEPT !.result = res]
                            IN  IF res = "err" THEN LoopErr(<<tool>>, fs, written, flakeNix, ran)
                                ELSE IF ~tool_succeeded(res)
                                THEN LoopFlow(<<tool>>, fs, written, flakeNix,
                                              [ran EXCEPT !.error = TRUE])
                                ELSE AfterToolSuccess(<<tool>>, ran)
               [] cmd = "DeleteGcroots" ->
                    \E failAt \in 0..Len(flake.gcroots) :
                        LET r == remove_gcroots(flake.gcroots, failAt, fs)
                        IN  IF r.ok THEN LoopFlow(<<>>, r.disk, written, flakeNix, last)
                            ELSE LoopErr(<<>>, r.disk, written, flakeNix, last)
               [] cmd = "RefreshDirenv" -> EnterDirenv(<<>>, FALSE, last)
               [] cmd = "Commit" -> EnterCommit(<<>>, last)
               [] cmd = "PrintHelp" -> LoopFlow(<<>>, fs, written, flakeNix, last)

\* update_flake: read_line, the command it names, execute_prompt_cmd
ReadCommand(cmd) ==
    /\ runPc = "await"
    /\ \E line \in CommandLines :
          /\ parse_command(line) = cmd
          /\ ExecutePromptCmd(cmd)

\* update_flake: read_line()? fails
ReadCommandFails ==
    /\ runPc = "await"
    /\ LoopErr(invoked, fs, written, flakeNix, Step("read_line", "Err", FALSE, FALSE))

\* refresh_direnv from its read_line on, and what follows it in the arm
DirenvAnswer ==
    /\ runPc = "direnv_prompt"
    /\ \E read \in {None} \cup {Some(l) : l \in AnswerLines}, res \in RunResults :
          LET cmd == lastStep.cmd
              Read(flow, notice, conf) ==
                  [Step(cmd, flow, notice, conf) EXCEPT !.answer = read]
              Then(inv, last) == IF pendingCommit THEN EnterCommit(inv, last)
                                 ELSE LoopFlow(inv, fs, written, flakeNix, last)
          IN  IF ~IsSome(read)
              THEN LoopErr(invoked, fs, written, flakeNix, Read("Err", FALSE, FALSE))
              ELSE IF ~confirmed(read[1])
              THEN Then(invoked, Read("Continue", FALSE, FALSE))
              ELSE IF ~allowWrite
              THEN Then(invoked, Read("Continue", TRUE, TRUE))
              ELSE IF res = "err"
              THEN LoopErr(Append(invoked, "direnv exec"), fs, written, flakeNix,
                           Read("Err", FALSE, TRUE))
              ELSE Then(Append(invoked, "direnv exec"), Read("Continue", FALSE, TRUE))

\* git_commit_changes from its read_line on
CommitAnswer ==
    /\ runPc = "commit_prompt"
    /\ \E read \in {None} \cup {Some(l) : l \in AnswerLines},
          add \in RunResults, commit \in RunResults :
          LET cmd == lastStep.cmd
              Read(flow, notice, conf) ==
                  [Step(cmd, flow, notice, conf) EXCEPT !.answer = read]
              conf == [Read("Continue", FALSE, TRUE) EXCEPT !.staged = add]
          IN  IF ~IsSome(read)
              THEN LoopErr(invoked, fs, written, flakeNix, Read("Err", FALSE, FALSE))
              ELSE IF ~confirmed(read[1])
              THEN LoopFlow(invoked, fs, written, flakeNix, Read("Continue", FALSE, FALSE))
              ELSE IF ~allowWrite
              THEN LoopFlow(invoked, fs, written, flakeNix, Read("Continue", TRUE, TRUE))
              ELSE CASE add = "err" -> LoopErr(Append(invoked, "git add"), fs, written, flakeNix, conf)
                     [] add = "false" -> LoopFlow(Append(invoked, "git add"), fs, written, flakeNix, conf)
                     [] add = "true" /\ commit = "err" ->
                           LoopErr(invoked \o <<"git add", "git commit">>, fs, written, flakeNix, conf)
                     [] add = "true" /\ commit # "err" ->
                           LoopFlow(invoked \o <<"git add", "git commit">>, fs, written, flakeNix, conf)

Next ==
    \/ CallProcessFlake
    \/ ProcessFlake
    \/ MainReturns
    \/ Display
    \/ ReadCommand("ApplyDiff")
    \/ ReadCommand("NextFlake")
    \/ ReadCommand("LaunchEditor")
    \/ ReadCommand("LaunchShell")
    \/ ReadCommand("RunNixFlakeUpdate")
    \/ ReadCommand("DeleteGcroots")
    \/ ReadCommand("Lock")
    \/ ReadCommand("RefreshDirenv")
    \/ ReadCommand("Commit")
    \/ ReadCommand("PrintHelp")
    \/ ReadCommandFails
    \/ DirenvAnswer
    \/ CommitAnswer

Spec == Init /\ [][Next]_vars

\* ---------------------------------------------------------------------
\* lockfile.rs, serde_int_tag_hack.rs: decoding a lock document
\* ---------------------------------------------------------------------
\* JSON values, as far as the decoder tells them apart
JInt(n) == [j |-> "int", n |-> n]
JStr(s) == [j |-> "str", s |-> s]
JArr == [j |-> "arr"]
\* an object under "inputs": its entry for each input id, or None
JInputs(entries) == [j |-> "obj", entries |-> entries]
\* an object under "nodes": its members "inputs", "locked" and "original"
JNode(inputs, lock, orig) ==
    [j |-> "obj", inputs |-> inputs, locked |-> lock, original |-> orig]
\* the top-level object: its members "version", "root" and "nodes"
JDoc(version, root, nodes) ==
    [j |-> "obj", version |-> version, root |-> root, nodes |-> nodes]

\* u8
U8Max == 255

\* an integer taken modulo 2^8 instead of being refused
u8_deserialize_wrapping(value) ==
    IF value.j = "int" THEN Some(value.n % (U8Max + 1)) ELSE None

\* u8::deserialize: an integer outside 0..=255, or no integer, is an error
u8_deserialize(value) ==
    IF value.j = "int" /\ value.n >= 0 /\ value.n <= U8Max THEN Some(value.n) ELSE None

\* Version<V>::deserialize
version_deserialize(V, value) ==
    LET n == u8_deserialize(value)
    IN  IsSome(n) /\ n[1] = V

\* Lockfile::V7 { _version: Version<7>, .. }
LockfileVersion == 7

\* a decoder that decodes every node into a LockfileNode at the top level
raw_nodes_deserialize_typed(nodes) ==
    IF \A id \in DOMAIN nodes :
          /\ nodes[id].j = "obj"
          /\ IsSome(nodes[id].locked)
          /\ IsSome(nodes[id].original)
    THEN Some(nodes) ELSE None

\* HashMap<String, Value>::deserialize: any JSON value is a Value
raw_nodes_deserialize(nodes) == Some(nodes)

\* Lockfile::deserialize (untagged, the one variant V7): Some of root_id and
\* raw_nodes, or None when the document matches no variant.  `nodes` is a
\* function from the node ids present to their values.
lockfile_deserialize(doc) ==
    IF /\ doc.j = "obj"
       /\ IsSome(doc.version) /\ version_deserialize(LockfileVersion, doc.version[1])
       /\ IsSome(doc.root) /\ doc.root[1].j = "str"
       /\ IsSome(doc.nodes) /\ IsSome(raw_nodes_deserialize(doc.nodes[1]))
    THEN Some([root_id |-> doc.root[1].s, raw_nodes |-> doc.nodes[1]])
    ELSE None

\* raw_nodes.get(id)
raw_nodes_get(raw_nodes, id) ==
    IF id \in DOMAIN raw_nodes THEN Some(raw_nodes[id]) ELSE None

\* a lookup that takes the entry of any input when the named one is missing
child_id_of_any_input(root_node, input_id) ==
    IF root_node.j = "obj" /\ IsSome(root_node.inputs) /\ root_node.inputs[1].j = "obj"
    THEN LET es == root_node.inputs[1].entries
             strs == {i \in DOMAIN es : IsSome(es[i]) /\ es[i][1].j = "str"}
         IN  IF strs = {} THEN None
             ELSE IF input_id \in strs THEN Some(es[input_id][1].s)
             ELSE Some(es[CHOOSE i \in strs : TRUE][1].s)
    ELSE None

\* root_node.get("inputs")?.get(input_id)?.as_str()?
child_id_of(root_node, input_id) ==
    IF /\ root_node.j = "obj"
       /\ IsSome(root_node.inputs)
       /\ root_node.inputs[1].j = "obj"
       /\ input_id \in DOMAIN root_node.inputs[1].entries
       /\ IsSome(root_node.inputs[1].entries[input_id])
       /\ root_node.inputs[1].entries[input_id][1].j = "str"
    THEN Some(root_node.inputs[1].entries[input_id][1].s)
    ELSE None

\* serde_json::from_value::<LockfileNode>: locked and original are required
lockfile_node_from_value(raw_node) ==
    IF raw_node.j = "obj" /\ IsSome(raw_node.locked) /\ IsSome(raw_node.original)
    THEN Some([locked |-> raw_node.locked[1], original |-> raw_node.original[1]])
    ELSE None

LocateError == "could not locate target node in lockfile"
NodeError == "failed to deserialize node"
TopLevelError == "failed to parse top level of lockfile"
ReadError == "failed to read file"

\* Lockfile::extract_input
extract_input(lockfile, input_id) ==
    LET root_node == raw_nodes_get(lockfile.raw_nodes, lockfile.root_id)
        child_id == IF IsSome(root_node) THEN child_id_of(root_node[1], input_id) ELSE None
        raw_node == IF IsSome(child_id) THEN raw_nodes_get(lockfile.raw_nodes, child_id[1])
                    ELSE None
    IN  IF ~IsSome(raw_node) THEN [kind |-> "err", error |-> LocateError]
        ELSE LET node == lockfile_node_from_value(raw_node[1])
             IN  IF IsSome(node) THEN [kind |-> "ok", node |-> node[1]]
                 ELSE [kind |-> "err", error |-> NodeError]

\* load_lockfile_input: fs::read, serde_json::from_slice, extract_input.
\* `file` is None when the file cannot be read, else the document; a
\* document that is no JSON is [j |-> "invalid"].
load_lockfile_input(file, input_id) ==
    IF ~IsSome(file) THEN [kind |-> "err", error |-> ReadError]
    ELSE LET lockfile == lockfile_deserialize(file[1])
         IN  IF ~IsSome(lockfile) THEN [kind |-> "err", error |-> TopLevelError]
             ELSE extract_input(lockfile[1], input_id)

\* ---------------------------------------------------------------------
\* SpecLock: load_lockfile_input applied to one document, and to a second
\* document that differs from it in its sibling nodes only
\* ---------------------------------------------------------------------
InputIds == {"nixpkgs", "other"}
NodeIds == {"root", "n", "s"}

\* values of the "version" member
VersionValues ==
    {None, Some(JStr("7"))}
    \cup {Some(JInt(n)) :
            n \in {-1, 0, LockfileVersion - 1, LockfileVersion, LockfileVersion + 1,
                   U8Max, U8Max + 1, U8Max + 1 + LockfileVersion}}

\* values of the "root" member
RootValues == {None, Some(JStr("root")), Some(JStr("ghost")), Some(JInt(0))}

GoodLocked == [type |-> "github", rev |-> Some("a"), url |-> None, lastModified |-> Some(0)]
OtherLocked == [type |-> "github", rev |-> Some("b"), url |-> None, lastModified |-> Some(0)]
GoodOriginal == [type |-> "github", ref |-> Some("r")]

\* nodes without inputs: decodable ones, one lacking "locked", and a value
\* that is no object
LeafNodes ==
    { JNode(None, Some(GoodLocked), Some(GoodOriginal)),
      JNode(None, Some(OtherLocked), Some(GoodOriginal)),
      JNode(None, None, Some(GoodOriginal)),
      JInt(0) }

\* values of the "inputs" member of the root node
InputsValues ==
    {None, Some(JArr)}
    \cup { Some(JInputs(es)) :
             es \in { [i \in InputIds |-> IF i = "nixpkgs" THEN e ELSE o] :
                        e \in {None, Some(JArr)}
                              \cup {Some(JStr(id)) : id \in NodeIds \cup {"ghost"}},
                        o \in {None, Some(JStr("s"))} } }
           \cup {Some(JInputs([i \in {"other"} |-> Some(JStr("s"))]))}

RootNodes ==
    {JNode(i, None, None) : i \in InputsValues}
    \cup {JNode(Some(JInputs([i \in InputIds |-> Some(JStr("root"))])),
                Some(GoodLocked), Some(GoodOriginal)),
          JInt(0)}

\* values of the "nodes" member: the nodes present, by id
NodesValues ==
    {None}
    \cup { Some([id \in ids \cup {"root"} |->
                    IF id = "root" THEN r ELSE IF id = "n" THEN n ELSE s]) :
             r \in RootNodes, n \in LeafNodes, s \in LeafNodes, ids \in SUBSET {"n", "s"} }
    \cup { Some([id \in {"n", "s"} |-> JNode(None, Some(GoodLocked), Some(GoodOriginal))]) }

\* the nodes the outcome may depend on: the root node and the node the root
\* node's inputs entry names
relevant_ids(doc, input_id) ==
    IF doc.j = "obj" /\ IsSome(doc.root) /\ doc.root[1].j = "str" /\ IsSome(doc.nodes)
    THEN LET root_id == doc.root[1].s
             root_node == raw_nodes_get(doc.nodes[1], root_id)
             child_id == IF IsSome(root_node) THEN child_id_of(root_node[1], input_id)
                         ELSE None
         IN  {root_id} \cup (IF IsSome(child_id) THEN {child_id[1]} ELSE {})
    ELSE {}

\* the root nodes that have the same inputs entry for input_id as root_node:
\* the entries of the other inputs and the node's other members replaced
RootVariants(root_node, input_id) ==
    {root_node}
    \cup (IF /\ root_node.j = "obj"
             /\ IsSome(root_node.inputs)
             /\ root_node.inputs[1].j = "obj"
             /\ input_id \in DOMAIN root_node.inputs[1].entries
          THEN { JNode(Some(JInputs([i \in InputIds |->
                                       IF i = input_id
                                       THEN root_node.inputs[1].entries[input_id]
                                       ELSE o])),
                       Some(GoodLocked), None) :
                   o \in {None, Some(JArr), Some(JStr("n"))} }
          ELSE {})

\* the documents that differ from doc outside what extract_input looks at:
\* sibling nodes added, removed or replaced, and the rest of the root node
\* replaced unless the input's entry names the root node itself
SiblingVariants(doc, input_id) ==
    IF doc.j = "obj" /\ IsSome(doc.nodes)
    THEN LET keep == relevant_ids(doc, input_id)
             kept == keep \cap DOMAIN doc.nodes[1]
             free == NodeIds \ keep
             root_id == IF IsSome(doc.root) /\ doc.root[1].j = "str"
                        THEN Some(doc.root[1].s) ELSE None
             roots == IF IsSome(root_id) /\ root_id[1] \in kept
                      THEN IF child_id_of(doc.nodes[1][root_id[1]], input_id) = root_id
                           THEN {doc.nodes[1][root_id[1]]}
                           ELSE RootVariants(doc.nodes[1][root_id[1]], input_id)
                      ELSE {JInt(0)}
         IN  { [doc EXCEPT !.nodes =
                   Some([id \in kept \cup ids |->
                           IF IsSome(root_id) /\ id = root_id[1] THEN r
                           ELSE IF id \in kept THEN doc.nodes[1][id] ELSE v])] :
                 ids \in SUBSET free, v \in {JNode(None, None, Some(GoodOriginal)), JNode(None, Some(OtherLocked), Some(GoodOriginal)), JInt(0)}, r \in roots }
    ELSE {doc}

InitLock ==
    /\ \/ lockDoc = None
       \/ lockDoc = Some([j |-> "invalid"])
       \/ \E v \in VersionValues, r \in {Some(JStr("root"))}, n \in NodesValues :
             lockDoc = Some(JDoc(v, r, n))
       \/ \E v \in {Some(JInt(LockfileVersion)), Some(JInt(LockfileVersion + 1))},
             r \in RootValues, n \in NodesValues :
             lockDoc = Some(JDoc(v, r, n))
    /\ lockInputId \in {"nixpkgs"}
    /\ lockOut = NotRun
    /\ IdleMatch
    /\ IdleDiscover
    /\ IdleDiff
    /\ IdleSigint
    /\ IdleRun
    /\ IdleResolve

\* load_lockfile_input on the document, and on a document that differs from
\* it in sibling nodes only
LoadLockfileInput ==
    /\ lockOut = NotRun
    /\ \E other \in (IF IsSome(lockDoc) THEN SiblingVariants(lockDoc[1], lockInputId)
                     ELSE {[j |-> "invalid"]}) :
          lockOut' = [op |-> "load_lockfile_input",
                      out |-> load_lockfile_input(lockDoc, lockInputId),
                      other |-> other,
                      otherOut |-> load_lockfile_input(Some(other), lockInputId)]
    /\ UNCHANGED <<lockDoc, lockInputId, matchVars, discoverVars, diffVars, sigintVars,
                   runVars, resolveVars>>

NextLock == LoadLockfileInput

SpecLock == InitLock /\ [][NextLock]_vars

\* ---------------------------------------------------------------------
\* main.rs: main from Cli::parse to the loop over the flakes
\* ---------------------------------------------------------------------
\* str::rsplit_once: the parts before and after the last `ch`, or None
RECURSIVE rsplit_at(_, _, _)
rsplit_at(s, ch, i) ==
    IF i = 0 THEN None
    ELSE IF s[i] = ch
    THEN Some([before |-> SubSeq(s, 1, i - 1), after |-> SubSeq(s, i + 1, Len(s))])
    ELSE rsplit_at(s, ch, i - 1)

rsplit_once(s, ch) == rsplit_at(s, ch, Len(s))

\* the input id a sequence of characters spells: an id is one character of
\* the model's alphabet, anything else is an id no document has
as_input_id(s) == IF Len(s) = 1 THEN s[1] ELSE "?"

\* get_flake_ref_metadata with the failed exit status not looked at
get_flake_ref_metadata_ignore_status(spawned, success, stdout) ==
    IF ~spawned THEN [kind |-> "err"]
    ELSE IF stdout.j = "obj" /\ IsSome(lockfile_deserialize(stdout.locks))
    THEN [kind |-> "ok",
          metadata |-> [locked |-> stdout.locked,
                        locks |-> lockfile_deserialize(stdout.locks)[1],
                        resolved |-> stdout.resolved]]
    ELSE [kind |-> "err"]

\* get_flake_ref_metadata: output()? fails, the status is a failure, or
\* stdout does not parse as NixFlakeMetadata (its locks is a Lockfile)
get_flake_ref_metadata(spawned, success, stdout) ==
    IF ~spawned THEN [kind |-> "err"]
    ELSE IF ~success THEN [kind |-> "err"]
    ELSE IF stdout.j = "obj" /\ IsSome(lockfile_deserialize(stdout.locks))
    THEN [kind |-> "ok",
          metadata |-> [locked |-> stdout.locked,
                        locks |-> lockfile_deserialize(stdout.locks)[1],
                        resolved |-> stdout.resolved]]
    ELSE [kind |-> "err"]

\* get_flake_ref_url: output()? fails, the status is a failure, or stdout
\* is no UTF-8
get_flake_ref_url(spawned, success, utf8) ==
    IF spawned /\ success /\ utf8 THEN [kind |-> "ok"] ELSE [kind |-> "err"]

\* ---------------------------------------------------------------------
\* SpecResolve: target resolution, the target line and discovery
\* ---------------------------------------------------------------------
CliTargets ==
    { <<"f">>,
      <<"f", "#", "nixpkgs">>,
      <<"f", "#", "x", "#", "nixpkgs">>,
      <<"f", "#", "other">>,
      <<"f", "#">> }

\* lock documents `nix flake metadata` can print under "locks"
MetadataLocks ==
    { JDoc(Some(JInt(v)), Some(JStr("root")),
           Some([id \in {"root", "n"} |->
                   IF id = "root"
                   THEN JNode(Some(JInputs([i \in {"nixpkgs"} |-> Some(JStr("n"))])),
                              None, None)
                   ELSE n])) :
        v \in {LockfileVersion, LockfileVersion + 1},
        n \in {JNode(None, Some(GoodLocked), Some(GoodOriginal)),
               JNode(None, Some([GoodLocked EXCEPT !.lastModified = Some(LastModifiedMax)]),
                     Some(GoodOriginal)),
               JNode(None, None, Some(GoodOriginal))} }

\* what `nix flake metadata --json` can print
MetadataOutputs ==
    {[j |-> "invalid"]}
    \cup { [j |-> "obj", locked |-> l, locks |-> d, resolved |-> GoodOriginal] :
             l \in {GoodLocked, [GoodLocked EXCEPT !.lastModified = Some(LastModifiedMax)]},
             d \in MetadataLocks }

InitResolve ==
    /\ cliTarget \in CliTargets
    /\ metadata = None
    /\ resolveCalls = <<>>
    /\ runPc = "start"
    /\ allowWrite = FALSE
    /\ cliCommand \in {"List", "Update"}
    /\ pendingFlakes = {}
    /\ current = None
    /\ processed = <<>>
    /\ failed = {}
    /\ listed = {}
    /\ exitCode = None
    /\ invoked = <<>>
    /\ written = {}
    /\ pendingCommit = FALSE
    /\ lockMatches = FALSE
    /\ lastStep = NoStep
    /\ lockfileNode = None
    /\ flakeNix = None
    /\ newFlakeNix = None
    /\ fs = GcrootTargets \cup LockfilePaths
    /\ flakes = {}
    /\ scanned = <<>>
    /\ reported = {}
    /\ IdleMatch
    /\ IdleDiff
    /\ IdleSigint
    /\ IdleLock

resolveOthers ==
    <<cand, refMatchAge, matchOut, fs, diffVars, sigintVars, lockVars, cliTarget,
      allowWrite, cliCommand, current, processed, failed, listed, invoked, written,
      pendingCommit, lockMatches, lastStep, lockfileNode, flakeNix, newFlakeNix>>

\* what a step of main may change before the loop over the flakes
MainStep(pc, code, tgt, md, calls) ==
    /\ runPc' = pc
    /\ exitCode' = code
    /\ target' = tgt
    /\ metadata' = md
    /\ resolveCalls' = calls
    /\ UNCHANGED <<flakes, scanned, reported, pendingFlakes, resolveOthers>>

\* a ? in main: main returns the Err and the process exits with code 1
MainErr(calls) == MainStep("exited", Some(1), target, metadata, calls)

\* main: get_flake_ref_metadata(flake_ref) with its ?, for either form of
\* cli.target
GetFlakeRefMetadata ==
    /\ runPc = "start"
    /\ \E spawned \in BOOLEAN, success \in BOOLEAN, stdout \in MetadataOutputs :
          LET r == get_flake_ref_metadata(spawned, success, stdout)
              calls == Append(resolveCalls,
                              [call |-> "get_flake_ref_metadata", spawned |-> spawned,
                               success |-> success,
                               parses |-> (stdout.j = "obj"
                                           /\ stdout.locks.version = Some(JInt(7)))])
          IN  IF r.kind = "err" THEN MainErr(calls)
              ELSE IF IsSome(rsplit_once(cliTarget, "#"))
              THEN MainStep("extract_input", None, target, Some(r.metadata), calls)
              ELSE MainStep("print_target", None,
                            [variant |-> "FlakeMetadata", locked |-> r.metadata.locked,
                             resolved |-> r.metadata.resolved],
                            Some(r.metadata), calls)

\* main: metadata.locks.extract_input(input_id) with its ?, then
\* get_flake_ref_url(&input) with its ?
ExtractTargetInput ==
    /\ runPc = "extract_input"
    /\ \E spawned \in BOOLEAN, success \in BOOLEAN, utf8 \in BOOLEAN :
          LET input_id == as_input_id(rsplit_once(cliTarget, "#")[1].after)
              input == extract_input(metadata[1].locks, input_id)
              url == get_flake_ref_url(spawned, success, utf8)
              extracted == [call |-> "extract_input", spawned |-> TRUE,
                            success |-> input.kind = "ok", parses |-> TRUE]
              rendered == [call |-> "get_flake_ref_url", spawned |-> spawned,
                           success |-> success, parses |-> utf8]
          IN  IF input.kind = "err" THEN MainErr(Append(resolveCalls, extracted))
              ELSE IF url.kind = "err"
              THEN MainErr(resolveCalls \o <<extracted, rendered>>)
              ELSE MainStep("print_target", None,
                            [variant |-> "FlakeInput", input |-> input.node],
                            metadata, resolveCalls \o <<extracted, rendered>>)

\* main: the target line; SystemTime::UNIX_EPOCH + Duration panics when the
\* sum is not representable
PrintTarget ==
    /\ runPc = "print_target"
    /\ LET lm == last_modified(locked(target))
       IN  IF IsSome(lm) /\ lm[1] > SystemTimeMaxSecs
           THEN MainStep("panicked", Some(101), target, metadata, resolveCalls)
           ELSE MainStep("discover", None, target, metadata, resolveCalls)

\* main: fs::read_dir(..)? or entry? fails
ReadDirFails ==
    /\ runPc = "discover"
    /\ MainErr(resolveCalls)

\* main: one iteration of the loop over the directory
DiscoverEntry ==
    /\ runPc = "discover"
    /\ Len(scanned) < MaxEntries
    /\ \E link \in Links :
          LET r == filter_gcroot(link, flakes, FlakeId, fs)
          IN  /\ flakes' = r.flakes
              /\ scanned' = Append(scanned, link)
              /\ reported' = IF r.err THEN reported \cup {Len(scanned) + 1}
                             ELSE reported
    /\ UNCHANGED <<runPc, exitCode, target, metadata, resolveCalls, pendingFlakes,
                   resolveOthers>>

\* main: the directory is exhausted; flakes.into_iter() starts the loop over
\* the flakes
DiscoverDone ==
    /\ runPc = "discover"
    /\ runPc' = "process"
    /\ pendingFlakes' = flakes
    /\ UNCHANGED <<exitCode, target, metadata, resolveCalls, flakes, scanned, reported,
                   resolveOthers>>

NextResolve ==
    \/ GetFlakeRefMetadata
    \/ ExtractTargetInput
    \/ PrintTarget
    \/ ReadDirFails
    \/ DiscoverEntry
    \/ DiscoverDone

SpecResolve == InitResolve /\ [][NextResolve]_vars

\* =====================================================================
\* The claims
\* =====================================================================

\* The axis flags and the freshness flag as the specification words them,
\* on the values the accessors give.
StatedRefOk ==
    \E v \in Refs : ref_(cand.original) = Some(v) /\ ref_(original(target)) = Some(v)
StatedRevOk ==
    \E v \in Revs : rev(cand.locked) = Some(v) /\ rev(locked(target)) = Some(v)
StatedUrlOk ==
    \E v \in Urls : url_no_git(cand.locked) = Some(v)
                    /\ url_no_git(locked(target)) = Some(v)
CandLastModified == last_modified(cand.locked)
StatedRefFreshOk ==
    /\ IsSome(CandLastModified)
    /\ (NowSecs - CandLastModified[1]) < refMatchAge
StatedOverall == (StatedRefOk /\ StatedRefFreshOk) \/ StatedRevOk \/ StatedUrlOk
LastModifiedOverflows ==
    IsSome(CandLastModified) /\ CandLastModified[1] > SystemTimeMaxSecs

\* C1: whenever the candidate's lastModified does not overflow, process_flake
\* skips the workspace, and print_flake_info returns true, exactly when
\* (refOk AND refFreshOk) OR revOk OR urlOk.
C1_SatisfiedIffOverall ==
    ~LastModifiedOverflows =>
        /\ matchOut.op = "process_flake" =>
              (matchOut.outcome = "skip" <=> StatedOverall)
        /\ matchOut.op = "print_flake_info" =>
              ((matchOut.out.kind = "ok" /\ matchOut.out.matches) <=> StatedOverall)

\* C3: each axis flag computed by matches_ref, matches_rev and matches_url is
\* true iff the candidate's value is present and equals the target's value on
\* that axis (absent on both sides gives false).
C3_AxisFlags ==
    matchOut.op = "print_flake_info" =>
        /\ matchOut.out.refOk <=> StatedRefOk
        /\ matchOut.out.revOk <=> StatedRevOk
        /\ matchOut.out.urlOk <=> StatedUrlOk

\* C3 witness: the flags were computed for a candidate and a target that
\* both lack a ref (refOk false) while their revs are present and equal.
C3_Witness ==
    /\ matchOut.op = "print_flake_info"
    /\ ref_(cand.original) = None
    /\ ref_(original(target)) = None
    /\ ~matchOut.out.refOk
    /\ IsSome(rev(cand.locked))
    /\ matchOut.out.revOk

\* C4: the freshness check is a strict comparison: refFreshOk is true for
\* lastModified = now - window + 1s, false for now - window - 1s and false for
\* now - window.
C4_StrictBoundary ==
    matchOut.op = "timestamp_matches" =>
        LET lm == CandLastModified[1]
            Fresh == matchOut.ts.kind = "ok" /\ matchOut.ts.fresh
            Stale == matchOut.ts.kind = "ok" /\ ~matchOut.ts.fresh
        IN  /\ lm = NowSecs - refMatchAge + 1 => Fresh
            /\ lm = NowSecs - refMatchAge - 1 => Stale
            /\ lm = NowSecs - refMatchAge => Stale

\* What the specification says of each gcroot target: the directory that
\* owns it and the flag it contributes, or None for a target of no tracked
\* shape.
StatedOwner(p) ==
    CASE p = DirAB \o <<DirenvName, <<"x">>>> ->
            Some([directory |-> DirAB, direnv |-> TRUE, build |-> FALSE])
      [] p = DirAB \o <<ResultName>> ->
            Some([directory |-> DirAB, direnv |-> FALSE, build |-> TRUE])
      [] p = DirAC \o <<<<"result", "-", "1">>>> ->
            Some([directory |-> DirAC, direnv |-> FALSE, build |-> TRUE])
      [] p = DirAC \o <<DirenvName, ResultName>> ->
            Some([directory |-> DirAC, direnv |-> TRUE, build |-> FALSE])
      [] OTHER -> None

\* the scanned entries that count for directory d: a readable link to an
\* existing target owned by d
CountsFor(link, d) ==
    /\ IsSome(link)
    /\ link[1] \in fs
    /\ IsSome(StatedOwner(link[1]))
    /\ StatedOwner(link[1])[1].directory = d

MarkersOf(d) ==
    LET Test(link) == CountsFor(link, d)
        sel == SelectSeq(scanned, Test)
    IN  [k \in 1..Len(sel) |-> sel[k][1]]

\* C6: the markers owned by one directory are accumulated into exactly one
\* Flake keyed by that directory, its gcroots being those markers in
\* processing order and each flag the OR of the markers' flags; /a/b/.direnv/x
\* and /a/b/result give one Flake for /a/b with both flags, in either order.
C6_OneRecordPerDirectory ==
    /\ \A d \in {DirAB, DirAC} :
          LET recs == {f \in flakes : f.directory = d}
              ms == MarkersOf(d)
          IN  /\ Cardinality(recs) <= 1
              /\ (join(d, FlakeLockName) \in fs /\ Len(ms) > 0) => recs # {}
              /\ \A f \in recs :
                    /\ f.gcroots = ms
                    /\ f.has_direnv_gc_roots <=>
                          \E k \in 1..Len(ms) : StatedOwner(ms[k])[1].direnv
                    /\ f.has_build_result <=>
                          \E k \in 1..Len(ms) : StatedOwner(ms[k])[1].build
    /\ \A i, j \in 1..Len(scanned) :
          ( /\ scanned[i] = Some(DirAB \o <<DirenvName, <<"x">>>>)
            /\ scanned[j] = Some(DirAB \o <<ResultName>>)
            /\ scanned[i][1] \in fs /\ scanned[j][1] \in fs
            /\ join(DirAB, FlakeLockName) \in fs )
          => /\ Cardinality({f \in flakes : f.directory = DirAB}) = 1
             /\ \A f \in flakes :
                   f.directory = DirAB => f.has_direnv_gc_roots /\ f.has_build_result

\* C6 witness: the build-result marker of /a/b was processed before its
\* direnv marker and the one Flake of /a/b holds both.
C6_Witness ==
    /\ Len(scanned) >= 2
    /\ scanned[1] = Some(DirAB \o <<ResultName>>)
    /\ scanned[2] = Some(DirAB \o <<DirenvName, <<"x">>>>)
    /\ \E f \in flakes :
          /\ f.directory = DirAB
          /\ Len(f.gcroots) = 2
          /\ f.has_direnv_gc_roots /\ f.has_build_result

\* the contexts for which diff_idx + context + 1 stays within usize
NoUsizeOverflow == Len(diffInput) + diffContext <= UsizeMax

\* position i lies within contextSize positions of a changed line
InSomeWindow(i) ==
    \E c \in 1..Len(diffInput) :
        /\ IsChange(diffInput[c])
        /\ i >= c - diffContext
        /\ i <= c + diffContext

InOutput(i) == \E k \in 1..Len(diffOut.result) : diffOut.result[k] = i

\* C7: the windower's output is a subsequence of the input in the original
\* order that contains every changed line, and an unchanged line only if it
\* lies within contextSize positions of a changed line.
C7_WindowedSubsequence ==
    (diffOut.op = "reduce_diff_context" /\ NoUsizeOverflow) =>
        /\ diffOut.kind = "ok"
        /\ \A k \in 1..(Len(diffOut.result) - 1) :
              diffOut.result[k] < diffOut.result[k + 1]
        /\ \A i \in 1..Len(diffInput) :
              /\ IsChange(diffInput[i]) => InOutput(i)
              /\ (InOutput(i) /\ ~IsChange(diffInput[i])) => InSomeWindow(i)

\* C8: duplicates are suppressed by position, not by value: two lines of
\* equal text and kind at different positions, each inside some window, both
\* appear in the output.
C8_DedupByPosition ==
    (diffOut.op = "reduce_diff_context" /\ NoUsizeOverflow) =>
        \A i, j \in 1..Len(diffInput) :
            ( /\ i # j
              /\ diffInput[i] = diffInput[j]
              /\ InSomeWindow(i) /\ InSomeWindow(j) )
            => (InOutput(i) /\ InOutput(j))

\* the commands a dry run must never start
WritingTools == {"nix flake update", "nix flake lock", "direnv exec", "git add", "git commit"}

\* C2: with allow_write off, the update loop never writes flake.nix, never
\* removes a gcroot and never runs nix flake update, nix flake lock, direnv
\* exec, git add or git commit; a gated command, and a confirmed sub-prompt,
\* prints the dry-run notice and the loop goes on for the same flake.
C2_DryRunNoSideEffects ==
    ~allowWrite =>
        /\ written = {}
        /\ \A f \in flakes : \A k \in 1..Len(f.gcroots) : f.gcroots[k] \in fs
        /\ \A k \in 1..Len(invoked) : invoked[k] \notin WritingTools
        /\ lastStep.cmd \in {"ApplyDiff", "RunNixFlakeUpdate", "DeleteGcroots", "Lock"}
              => (lastStep.notice /\ lastStep.flow = "Continue")
        /\ lastStep.confirmed => (lastStep.notice /\ lastStep.flow = "Continue")
        /\ lastStep.notice => (runPc \in {"display", "await"} /\ IsSome(current))

\* C2 witness: in a dry run the operator confirmed the Commit sub-prompt,
\* after git log and git diff had run, and got the notice.
C2_Witness ==
    /\ ~allowWrite
    /\ lastStep.cmd = "Commit"
    /\ lastStep.confirmed
    /\ lastStep.notice
    /\ invoked = <<"git log", "git diff">>
    /\ runPc = "display"

\* C5: every discovered flake is processed exactly once, a failure never
\* keeps a later flake from being processed, and the run ends with exit
\* code zero.
C5_EveryFlakeProcessedExitZero ==
    /\ \A i, j \in 1..Len(processed) : processed[i] = processed[j] => i = j
    /\ runPc \in {"done", "panicked"} =>
          /\ \A f \in flakes : \E i \in 1..Len(processed) : processed[i] = f.directory
          /\ exitCode = Some(0)

\* C9: from the guard's creation until the function returns the empty
\* handler is installed, so it is while the child runs; whenever no call is
\* in progress the disposition is the one in force before the first call,
\* also after a child that could not be started; and an interrupt never
\* ends the process during a call.
C9_GuardScoped ==
    /\ callPc \in {"guarded", "waiting", "returning_err", "returning_true",
                   "returning_false"}
          => (sigint = EmptyHandler /\ guard = Some(sigint0))
    /\ child \in {"running", "exited"} => sigint = EmptyHandler
    /\ callPc = "idle" => (sigint = sigint0 /\ guard = None)
    /\ callPc = "killed" => (guard = None /\ child = "none")

\* C9 witness: SIGINT was ignored before the first call; one call could not
\* start its child, another ran its child to the end, and SIGINT is ignored
\* again.
C9_Witness ==
    /\ sigint0 = "SIG_IGN"
    /\ callPc = "idle"
    /\ sigint = "SIG_IGN"
    /\ \E i, j \in 1..Len(callLog) :
          /\ callLog[i].result = "returning_err"
          /\ callLog[j].result = "returning_true"
          /\ callLog[j].fn = "get_flake_ref_metadata"

LoopPcs == {"display", "await", "direnv_prompt", "commit_prompt"}

C11_ToolFailureReprompts ==
    (allowWrite /\ lastStep.cmd \in {"RunNixFlakeUpdate", "Lock"}
                /\ lastStep.result = "false") =>
        /\ lastStep.error
        /\ lastStep.flow = "Continue"
        /\ runPc \in {"display", "await"}
        /\ IsSome(current)
        /\ current[1].directory \notin failed
        /\ current[1].directory = processed[Len(processed)]
        /\ current[1] \notin pendingFlakes
        /\ ~pendingCommit
        /\ invoked = <<IF lastStep.cmd = "Lock" THEN "nix flake lock"
                       ELSE "nix flake update">>

\* C11 witness: nix flake lock failed for a flake that has direnv gcroots
\* and lies in a git repository, and the operator is at the prompt again.
C11_Witness ==
    /\ allowWrite
    /\ lastStep.cmd = "Lock"
    /\ lastStep.result = "false"
    /\ runPc = "await"
    /\ IsSome(current)
    /\ current[1].has_direnv_gc_roots
    /\ in_git_repo(current[1], fs)

\* C12: DeleteGcroots with writes enabled removes every gcroot of the flake
\* when all removals succeed and the loop goes on; when a removal fails the
\* gcroots before it are gone, it and the ones after it are left as they
\* were, the flake is recorded as failed and left without another prompt,
\* and main goes on with the flakes that remain.
C12_DeleteGcroots ==
    [][ (runPc = "await" /\ allowWrite /\ lastStep'.cmd = "DeleteGcroots") =>
            LET g == current[1].gcroots
                Before(k) == {g[j] : j \in 1..(k - 1)}
            IN  \/ /\ lastStep'.flow = "Continue"
                   /\ \A k \in 1..Len(g) : g[k] \in fs /\ g[k] \notin fs'
                   /\ fs' = fs \ Before(Len(g) + 1)
                   /\ runPc' = "display"
                   /\ current' = current
                   /\ failed' = failed
                \/ /\ lastStep'.flow = "Err"
                   /\ \E k \in 1..Len(g) :
                         /\ fs' = fs \ Before(k)
                         /\ Before(k) \subseteq fs
                   /\ runPc' = "process"
                   /\ current' = None
                   /\ failed' = failed \cup {current[1].directory}
                   /\ pendingFlakes' = pendingFlakes
                   /\ processed' = processed
                   /\ exitCode' = exitCode
      ]_vars

\* C12 witness: the second removal failed for a flake with two gcroots; the
\* first gcroot is gone, the second is still there, the flake is recorded as
\* failed and another flake is still to be processed.
C12_Witness ==
    /\ allowWrite
    /\ lastStep.cmd = "DeleteGcroots"
    /\ lastStep.flow = "Err"
    /\ runPc = "process"
    /\ current = None
    /\ pendingFlakes # {}
    /\ \E f \in flakes :
          /\ f.directory \in failed
          /\ Len(f.gcroots) = 2
          /\ f.gcroots[1] \notin fs
          /\ f.gcroots[2] \in fs

\* the document read, when it is a JSON object
LockDocIsObject == IsSome(lockDoc) /\ lockDoc[1].j = "obj"

\* C14: a lock document whose version is absent, or an integer other than
\* 7 (263 included), fails top-level decoding; only version 7 passes the
\* version check.
C14_VersionSeven ==
    (lockOut.op = "load_lockfile_input" /\ LockDocIsObject) =>
        LET v == lockDoc[1].version
            Seven == IsSome(v) /\ v[1].j = "int" /\ v[1].n = 7
            TopLevelFails == lockOut.out.kind = "err" /\ lockOut.out.error = TopLevelError
        IN  /\ ~IsSome(v) => TopLevelFails
            /\ (IsSome(v) /\ v[1].j = "int" /\ v[1].n # 7) => TopLevelFails
            /\ ~TopLevelFails => Seven
            /\ (Seven /\ IsSome(lockDoc[1].root) /\ lockDoc[1].root[1].j = "str"
                      /\ IsSome(lockDoc[1].nodes)) => ~TopLevelFails

\* C14 witness: a document with version 263 that would give a node with
\* version 7 failed top-level decoding.
C14_Witness ==
    /\ lockOut.op = "load_lockfile_input"
    /\ LockDocIsObject
    /\ lockDoc[1].version = Some(JInt(263))
    /\ lockOut.out.kind = "err"
    /\ lockOut.out.error = TopLevelError
    /\ load_lockfile_input(Some([lockDoc[1] EXCEPT !.version = Some(JInt(7))]),
                           lockInputId).kind = "ok"

\* the document passes top-level decoding
LockDocDecodes ==
    /\ LockDocIsObject
    /\ lockDoc[1].version = Some(JInt(7))
    /\ IsSome(lockDoc[1].root) /\ lockDoc[1].root[1].j = "str"
    /\ IsSome(lockDoc[1].nodes)

\* C15: on a version-7 document extract_input goes from the root id to the
\* root node, to its inputs entry for the input id, to the node that entry
\* names; it fails when the root id names no node, the root node has no
\* inputs, inputs has no entry for the id, the entry is no string, or the
\* entry names no node, and it returns a node, the one named, only when
\* every hop is there.
C15_ExtractInputHops ==
    (lockOut.op = "load_lockfile_input" /\ LockDocDecodes) =>
        LET nodes == lockDoc[1].nodes[1]
            rid == lockDoc[1].root[1].s
            HasRoot == rid \in DOMAIN nodes
            HasInputs == /\ HasRoot
                         /\ nodes[rid].j = "obj"
                         /\ IsSome(nodes[rid].inputs)
                         /\ nodes[rid].inputs[1].j = "obj"
            HasEntry == /\ HasInputs
                        /\ lockInputId \in DOMAIN nodes[rid].inputs[1].entries
                        /\ IsSome(nodes[rid].inputs[1].entries[lockInputId])
            IsNodeId == /\ HasEntry
                        /\ nodes[rid].inputs[1].entries[lockInputId][1].j = "str"
            HasNode == /\ IsNodeId
                       /\ nodes[rid].inputs[1].entries[lockInputId][1].s \in DOMAIN nodes
            Located == ~(lockOut.out.kind = "err" /\ lockOut.out.error = LocateError)
        IN  /\ Located <=> HasNode
            /\ lockOut.out.kind = "err" => lockOut.out.error \in {LocateError, NodeError}
            /\ lockOut.out.kind = "ok" =>
                  LET raw == nodes[nodes[rid].inputs[1].entries[lockInputId][1].s]
                  IN  /\ raw.j = "obj"
                      /\ raw.locked = Some(lockOut.out.node.locked)
                      /\ raw.original = Some(lockOut.out.node.original)

\* C15 witness: the root node's entry for the input is a string that names
\* no node, and extract_input failed to locate the node.
C15_Witness ==
    /\ lockOut.op = "load_lockfile_input"
    /\ LockDocDecodes
    /\ "root" \in DOMAIN lockDoc[1].nodes[1]
    /\ lockDoc[1].root[1].s = "root"
    /\ lockDoc[1].nodes[1]["root"].j = "obj"
    /\ lockDoc[1].nodes[1]["root"].inputs =
          Some(JInputs([i \in InputIds |->
                          IF i = lockInputId THEN Some(JStr("ghost")) ELSE Some(JStr("s"))]))
    /\ "s" \in DOMAIN lockDoc[1].nodes[1]
    /\ lockOut.out = [kind |-> "err", error |-> LocateError]

\* the value under inputs[lockInputId] of a node, or None
EntryOf(node) ==
    IF /\ node.j = "obj"
       /\ IsSome(node.inputs)
       /\ node.inputs[1].j = "obj"
       /\ lockInputId \in DOMAIN node.inputs[1].entries
    THEN node.inputs[1].entries[lockInputId]
    ELSE None

\* two documents with the same version and root id, the same inputs entry
\* for the input in the root node, and the same node under the id that
\* entry names
AgreeOnInput(d, o) ==
    /\ o.j = "obj"
    /\ o.version = d.version
    /\ o.root = d.root
    /\ IsSome(o.nodes) <=> IsSome(d.nodes)
    /\ (IsSome(d.root) /\ d.root[1].j = "str" /\ IsSome(d.nodes)) =>
          LET rid == d.root[1].s
              dn == d.nodes[1]
              on == o.nodes[1]
          IN  /\ rid \in DOMAIN dn <=> rid \in DOMAIN on
              /\ rid \in DOMAIN dn =>
                    /\ EntryOf(dn[rid]) = EntryOf(on[rid])
                    /\ (IsSome(EntryOf(dn[rid])) /\ EntryOf(dn[rid])[1].j = "str") =>
                          LET c == EntryOf(dn[rid])[1].s
                          IN  /\ c \in DOMAIN dn <=> c \in DOMAIN on
                              /\ c \in DOMAIN dn => dn[c] = on[c]

\* C16: two lock documents with the same version, root id, inputs entry of
\* the root node for the input and referenced node give the same outcome of
\* decoding and extracting, whatever their sibling nodes hold.
C16_SiblingsOpaque ==
    (lockOut.op = "load_lockfile_input" /\ LockDocIsObject) =>
        /\ AgreeOnInput(lockDoc[1], lockOut.other)
        /\ lockOut.out = lockOut.otherOut

\* C16 witness: the node was extracted from a document and from another one
\* that has a sibling node which is no decodable node.
C16_Witness ==
    /\ lockOut.op = "load_lockfile_input"
    /\ LockDocIsObject
    /\ lockOut.other # lockDoc[1]
    /\ lockOut.out.kind = "ok"
    /\ lockOut.otherOut.kind = "ok"
    /\ \E id \in DOMAIN lockOut.other.nodes[1] :
          /\ lockOut.other.nodes[1][id] = JNode(None, None, Some(GoodOriginal))
          /\ id \notin DOMAIN lockDoc[1].nodes[1]

\* a call of target resolution that failed: the child could not be started,
\* it exited with a failure (for extract_input: the node was not returned),
\* or its output could not be used
ResolveCallFailed(c) == ~c.spawned \/ ~c.success \/ ~c.parses

\* C13: when the describe call, the extraction of the named input or the
\* URL rendering call fails, main exits with a non-zero code before
\* discovery: no gcroot is scanned and no flake is processed.  Discovery
\* starts only after every call of target resolution succeeded.
C13_ResolveFailureAborts ==
    /\ (\E i \in 1..Len(resolveCalls) : ResolveCallFailed(resolveCalls[i])) =>
          /\ runPc = "exited"
          /\ IsSome(exitCode) /\ exitCode[1] # 0
          /\ scanned = <<>>
          /\ flakes = {}
          /\ pendingFlakes = {}
          /\ processed = <<>>
    /\ (runPc \in {"discover", "process"} \/ scanned # <<>>) =>
          /\ resolveCalls # <<>>
          /\ \A i \in 1..Len(resolveCalls) : ~ResolveCallFailed(resolveCalls[i])
          /\ IsSome(rsplit_once(cliTarget, "#")) => Len(resolveCalls) = 3

\* C13 witness: the describe call and the extraction succeeded, the URL
\* rendering call exited with a failure, and main has exited.
C13_Witness ==
    /\ Len(resolveCalls) = 3
    /\ resolveCalls[2].call = "extract_input"
    /\ resolveCalls[3].call = "get_flake_ref_url"
    /\ resolveCalls[3].spawned
    /\ ~resolveCalls[3].success
    /\ runPc = "exited"
    /\ exitCode = Some(1)

\* the entry read last
LastScanned == scanned'[Len(scanned')]

\* C17: every Flake of the map has its flake.lock on disk, and a gcroot
\* whose owning directory has no flake.lock leaves the map as it was: no
\* Flake is added and none is changed.
C17_NoLockNoFlake ==
    [][ /\ \A f \in flakes' :
              /\ f.lockfile_path = join(f.directory, FlakeLockName)
              /\ f.lockfile_path \in fs'
        /\ ( /\ Len(scanned') = Len(scanned) + 1
             /\ IsSome(LastScanned)
             /\ LastScanned[1] \in fs
             /\ IsSome(StatedOwner(LastScanned[1]))
             /\ join(StatedOwner(LastScanned[1])[1].directory, FlakeLockName) \notin fs )
           => (flakes' = flakes /\ reported' = reported)
      ]_vars

\* C17 witness: after a gcroot of /a/c, which has a flake.lock, an existing
\* gcroot of /a/b, which has none, was examined; the map holds /a/c only.
C17_Witness ==
    /\ scanned = <<Some(DirAC \o <<<<"result", "-", "1">>>>), Some(DirAB \o <<ResultName>>)>>
    /\ DirAB \o <<ResultName>> \in fs
    /\ join(DirAB, FlakeLockName) \notin fs
    /\ Cardinality(flakes) = 1
    /\ \E f \in flakes : f.directory = DirAC

\* C18: a gcroot whose link target no longer exists is skipped without an
\* error being reported and leaves the map as it was; a gcroot that is
\* neither under a .direnv directory nor named result or result-* leaves
\* the map as it was too.
C18_StaleOrUntrackedSkipped ==
    [][ (Len(scanned') = Len(scanned) + 1 /\ IsSome(LastScanned)) =>
            /\ LastScanned[1] \notin fs => (flakes' = flakes /\ reported' = reported)
            /\ (LastScanned[1] \in fs /\ ~IsSome(StatedOwner(LastScanned[1])))
                  => flakes' = flakes
      ]_vars

\* C18 witness: /a/b has a Flake from its direnv gcroot; then a stale
\* result gcroot of /a/b and an existing gcroot named results were
\* examined, and the Flake still has the one gcroot and no build result.
C18_Witness ==
    /\ scanned = <<Some(DirAB \o <<DirenvName, <<"x">>>>), Some(DirAB \o <<ResultName>>),
                   Some(DirAB \o <<<<"result", "s">>>>)>>
    /\ DirAB \o <<ResultName>> \notin fs
    /\ DirAB \o <<<<"result", "s">>>> \in fs
    /\ reported = {}
    /\ flakes = {[id |-> FlakeId,
                  directory |-> DirAB,
                  gcroots |-> <<DirAB \o <<DirenvName, <<"x">>>>>>,
                  has_direnv_gc_roots |-> TRUE,
                  has_build_result |-> FALSE,
                  lockfile_path |-> join(DirAB, FlakeLockName)]}

\* the target is the FlakeInput target made of the candidate node itself
TargetIsCandidate == target = [variant |-> "FlakeInput", input |-> cand]

\* the window covers now - lastModified of the candidate
WindowCovers ==
    IsSome(CandLastModified) => (NowSecs - CandLastModified[1]) < refMatchAge

\* C19: a node matched against the target constructed from that node, with
\* a window that covers now - lastModified, counts as satisfying the target:
\* process_flake skips it and print_flake_info returns true.
C19_SelfMatch ==
    (TargetIsCandidate /\ WindowCovers) =>
        /\ matchOut.op = "process_flake" => matchOut.outcome = "skip"
        /\ matchOut.op = "print_flake_info" =>
              (matchOut.out.kind = "ok" /\ matchOut.out.matches)

\* C20: whenever the candidate's lastModified overflows the absolute-time
\* representation, matching the workspace ends in a reported failure: the
\* filter of process_flake returns the error, and so does print_flake_info,
\* whatever the ref, rev and url axes say.
C20_OverflowReported ==
    LastModifiedOverflows =>
        /\ matchOut.op = "process_flake" => matchOut.outcome = "err"
        /\ matchOut.op = "print_flake_info" => matchOut.out.kind = "err"

\* the lines the returned references point at, in the order returned
OutputLines == [k \in 1..Len(diffOut.result) |-> diffInput[diffOut.result[k]]]

\* the changed lines of the input, each occurrence, in the input's order
ChangedLines == SelectSeq(diffInput, IsChange)

\* C21: with context 0 the windower returns exactly the changed lines of the
\* input, one per occurrence and in the input's order, and no unchanged line.
C21_ContextZeroChangedLines ==
    (diffOut.op = "reduce_diff_context" /\ diffContext = 0) =>
        /\ diffOut.kind = "ok"
        /\ OutputLines = ChangedLines

\* reduce_diff_context applied, with the same context, to its own output
AppliedAgain == reduce_diff_context(OutputLines, diffContext, overflowChecks)

\* C22: the windower is idempotent: applied with the same context to its own
\* output it returns every line of that output, in the same order (stated
\* for the contexts that stay within usize).
C22_Idempotent ==
    (diffOut.op = "reduce_diff_context" /\ NoUsizeOverflow) =>
        /\ diffOut.kind = "ok"
        /\ AppliedAgain.kind = "ok"
        /\ AppliedAgain.result = [k \in 1..Len(OutputLines) |-> k]

\* C23: with a context of at least the input's length the windower returns
\* the whole input: the same lines, in the same order, none missing (stated
\* for the contexts that stay within usize and the inputs that have a
\* changed line).
C23_FullContextIdentity ==
    ( /\ diffOut.op = "reduce_diff_context"
      /\ diffContext >= Len(diffInput)
      /\ NoUsizeOverflow
      /\ ChangedLines # <<>> ) =>
        /\ diffOut.kind = "ok"
        /\ OutputLines = diffInput

\* C24: with ref_match_age = 0 a matching ref alone never skips a workspace:
\* process_flake returns early exactly when the locked rev or the locked url
\* matches the target's (stated for a lastModified that does not overflow).
C24_ZeroWindowRevOrUrl ==
    (matchOut.op = "process_flake" /\ refMatchAge = 0 /\ ~LastModifiedOverflows) =>
        (matchOut.outcome = "skip" <=> (StatedRevOk \/ StatedUrlOk))

\* C25: for a lastModified later than the current time that does not
\* overflow, timestamp_matches returns a flag, true for any positive window,
\* and it fails only when the absolute time overflows.
C25_FutureTimestampFresh ==
    matchOut.op = "timestamp_matches" =>
        /\ (CandLastModified[1] > NowSecs /\ ~LastModifiedOverflows /\ refMatchAge > 0) =>
              (matchOut.ts.kind = "ok" /\ matchOut.ts.fresh)
        /\ matchOut.ts.kind # "ok" => LastModifiedOverflows

ToolCommands == {"RunNixFlakeUpdate", "Lock"}

\* the directory, or one of the directories above it, holds .git
VersionControlled(dir) ==
    \E k \in 0..Len(dir) : Append(SubSeq(dir, 1, k), GitName) \in fs

\* C26: after nix flake update or nix flake lock succeeded (writes enabled),
\* the direnv sub-prompt is shown iff the flake has direnv gcroots, the commit
\* sub-prompt is shown iff the flake lies in a git repository, the direnv
\* sub-prompt comes first when both are shown, and unless a step fails with
\* an Err the loop then goes round for the same flake.
C26_SubPromptsAfterTool ==
    [][ /\ (runPc = "await" /\ lastStep'.cmd \in ToolCommands /\ lastStep'.result = "true")
              => /\ allowWrite
                 /\ (runPc' = "direnv_prompt") <=> current[1].has_direnv_gc_roots
                 /\ (~current[1].has_direnv_gc_roots /\ lastStep'.flow # "Err")
                       => /\ (runPc' = "commit_prompt") <=> VersionControlled(current[1].directory)
                          /\ runPc' \in {"commit_prompt", "display"}
                          /\ current' = current
        /\ (runPc = "direnv_prompt" /\ lastStep.cmd \in ToolCommands /\ lastStep'.flow # "Err")
              => /\ (runPc' = "commit_prompt") <=> VersionControlled(current[1].directory)
                 /\ runPc' \in {"commit_prompt", "display"}
                 /\ current' = current
        /\ (runPc = "commit_prompt" /\ lastStep.cmd \in ToolCommands)
              => /\ runPc' # "direnv_prompt"
                 /\ lastStep'.flow # "Err" => (runPc' = "display" /\ current' = current)
      ]_vars

\* C26 witness: nix flake lock succeeded for a flake with direnv gcroots in
\* a git repository, the direnv refresh was confirmed and run, and the
\* commit sub-prompt is now shown.
C26_Witness ==
    /\ runPc = "commit_prompt"
    /\ lastStep.cmd = "Lock"
    /\ IsSome(current)
    /\ current[1].has_direnv_gc_roots
    /\ VersionControlled(current[1].directory)
    /\ invoked = <<"nix flake lock", "direnv exec", "git log", "git diff">>

\* the answer is the single letter y with nothing but white space around it
ExactlyYes(line) ==
    \E k \in 1..Len(line) :
        /\ line[k] = "y"
        /\ \A i \in (1..Len(line)) \ {k} : line[i] \in Whitespace

\* the commands started since the sub-prompt was shown
StartedSince == SubSeq(invoked', Len(invoked) + 1, Len(invoked'))
Started(tool) == \E k \in 1..Len(StartedSince) : StartedSince[k] = tool

\* C27: direnv exec is started only from the direnv sub-prompt, and git add
\* and git commit only from the commit sub-prompt, and only when the line
\* read there trims to exactly y and writes are enabled; then they are
\* started.  Any other answer starts none of them, changes no file and is
\* not an error, and git commit is started only after git add succeeded.
C27_ConfirmThenAct ==
    [][ (runPc \in {"direnv_prompt", "commit_prompt"}) =>
          LET ans == lastStep'.answer
              yes == IsSome(ans) /\ ExactlyYes(ans[1])
          IN  /\ Started("direnv exec") <=> (runPc = "direnv_prompt" /\ yes /\ allowWrite)
              /\ Started("git add") <=> (runPc = "commit_prompt" /\ yes /\ allowWrite)
              /\ Started("git commit") <=>
                    (Started("git add") /\ lastStep'.staged = "true")
              /\ Started("git commit") =>
                    StartedSince = <<"git add", "git commit">>
              /\ lastStep'.confirmed <=> yes
              /\ (IsSome(ans) /\ ~yes) =>
                    /\ \A k \in 1..Len(StartedSince) : StartedSince[k] \notin WritingTools
                    /\ lastStep'.flow = "Err" => Started("git log")
                    /\ ~lastStep'.notice
              /\ fs' = fs
              /\ written' = written
      ]_vars

\* C27 witness: the commit sub-prompt was answered y with writes enabled,
\* git add failed, and git commit was not started.
C27_Witness ==
    /\ allowWrite
    /\ IsSome(lastStep.answer)
    /\ ExactlyYes(lastStep.answer[1])
    /\ lastStep.staged = "false"
    /\ invoked = <<"git log", "git diff", "git add">>
    /\ runPc \in {"display", "await"}

\* the text a file becomes when only the managed input's url is replaced
Proposed(text) == [body |-> text.body, url |-> "new"]

EditCommands == {"LaunchEditor", "LaunchShell"}

\* C28: the text ApplyDiff writes is the proposal made from flake.nix as it
\* stands when the command is given: a command is read only with a proposal
\* computed from the file's present text, a step of LaunchEditor or
\* LaunchShell that stays in the loop goes back to the top of the loop and
\* drops the proposal, and the top of the loop computes it afresh without
\* touching the file.
C28_ApplyWritesFreshProposal ==
    [][ /\ (runPc = "await")
              => newFlakeNix = Some(Proposed(flakeNix[1]))
        /\ ( /\ runPc = "await"
             /\ lastStep'.cmd = "ApplyDiff"
             /\ lastStep'.flow = "Continue"
             /\ ~lastStep'.notice )
              => /\ flakeNix' = Some(Proposed(flakeNix[1]))
                 /\ runPc' = "display"
        /\ (runPc = "await" /\ lastStep'.cmd \in EditCommands /\ runPc' \in LoopPcs)
              => /\ runPc' = "display"
                 /\ newFlakeNix' = None
        /\ (runPc = "display" /\ runPc' = "await")
              => /\ flakeNix' = flakeNix
                 /\ newFlakeNix' = Some(Proposed(flakeNix[1]))
        /\ (runPc \in LoopPcs /\ flakeNix' # flakeNix /\ runPc' \in LoopPcs)
              => (runPc = "await" /\ lastStep'.cmd \in EditCommands \cup {"ApplyDiff"})
      ]_vars

\* C28 witness: the file was edited in the editor after a display, and the
\* text ApplyDiff then wrote holds the edit and the new url.
C28_Witness ==
    /\ lastStep.cmd = "ApplyDiff"
    /\ lastStep.flow = "Continue"
    /\ ~lastStep.notice
    /\ IsSome(current)
    /\ current[1].directory \in written
    /\ flakeNix = Some([body |-> "edited", url |-> "new"])

PrintedAs(field, colour) ==
    \E k \in 1..Len(matchOut.out.printed) :
        matchOut.out.printed[k] = [field |-> field, colour |-> colour]

\* C29: print_flake_info prints a present rev that agrees with the target in
\* green unless the ref was printed in green, and prints every present ref,
\* rev or url that disagrees with the target in red.
C29_SharedColourSlot ==
    matchOut.op = "print_flake_info" =>
        /\ (IsSome(rev(cand.locked)) /\ StatedRevOk) =>
              (PrintedAs("rev", "green") <=> ~PrintedAs("ref", "green"))
        /\ (IsSome(ref_(cand.original)) /\ ~StatedRefOk) => PrintedAs("ref", "red")
        /\ (IsSome(rev(cand.locked)) /\ ~StatedRevOk) => PrintedAs("rev", "red")
        /\ (IsSome(url_no_git(cand.locked)) /\ ~StatedUrlOk) => PrintedAs("url", "red")

\* the run's target is satisfied by the node, as the specification words it
RunSatisfied(node) ==
    LET r == ref_(node.original)
        v == rev(node.locked)
        u == url_no_git(node.locked)
        lm == last_modified(node.locked)
        refOk == IsSome(r) /\ r = ref_(original(RunTarget))
        revOk == IsSome(v) /\ v = rev(locked(RunTarget))
        urlOk == IsSome(u) /\ u = url_no_git(locked(RunTarget))
        fresh == IsSome(lm) /\ (NowSecs - lm[1]) < RunRefMatchAge
    IN  (refOk /\ fresh) \/ revOk \/ urlOk

RecordWellFormed(f, m) ==
    /\ Len(f.gcroots) >= 1
    /\ f.has_direnv_gc_roots \/ f.has_build_result
    /\ f.lockfile_path = Append(f.directory, FlakeLockName)
    /\ \A g \in m : g.directory = f.directory => g = f

\* g is f after more markers: same directory, no flag cleared, the markers
\* of f still there, first and in their order
GrownFrom(g, f) ==
    /\ g.directory = f.directory
    /\ g.id = f.id
    /\ g.lockfile_path = f.lockfile_path
    /\ f.has_direnv_gc_roots => g.has_direnv_gc_roots
    /\ f.has_build_result => g.has_build_result
    /\ Len(g.gcroots) >= Len(f.gcroots)
    /\ SubSeq(g.gcroots, 1, Len(f.gcroots)) = f.gcroots

\* C31: during discovery every Flake of the map has at least one gcroot, at
\* least one of its two flags set, lockfile_path = directory/flake.lock, and
\* is the only Flake of its directory; and a further entry of the gcroots
\* directory clears no flag, removes or reorders no gcroot and removes no
\* Flake.
C31_RecordsWellFormedAndGrow ==
    [][ /\ \A f \in flakes : RecordWellFormed(f, flakes)
        /\ \A g \in flakes' : RecordWellFormed(g, flakes')
        /\ \A f \in flakes : \E g \in flakes' : GrownFrom(g, f)
      ]_vars

\* C31 witness: three entries were scanned and the map holds a Flake for
\* each of two directories, one of them with two gcroots.
C31_Witness ==
    /\ Len(scanned) = 3
    /\ \E f, g \in flakes :
          /\ f.directory = DirAB
          /\ g.directory = DirAC
          /\ Len(f.gcroots) = 2
          /\ Len(g.gcroots) = 1

====
